---- MODULE Spec2Model ----
(***************************************************************************)
(* Provider gateway of the AI website builder: the serverless handlers     *)
(* ai-code-assistant and ai-project-generator.  One invocation is the      *)
(* pipeline route -> buildRequestBody -> send -> extractText -> normalize. *)
(* JavaScript strings are TLA+ strings (TLC evaluates Len, \o and SubSeq   *)
(* on them), so trimming, substring search, truncation, the JSON grammar   *)
(* and the code-block regular expression are computed character by         *)
(* character.                                                              *)
(***************************************************************************)
EXTENDS Integers, Sequences, FiniteSets, TLC

\* One invocation of a gateway handler: its request and its locals.
VARIABLES handler, apiKeys, selectedModels, pc, apiUrl, apiKey, model,
          headers, requestBody, upstream, aiResponse, response

\* A caller of the gateway in the builder: AIChat.sendMessage or
\* generatePlan, its position, its locals and what it shows.
VARIABLES caller, chatPc, isLoading, invocations, waited, replyData, replyError,
          messages, toasts, codeUpdates, plan, sends

\* One project file on its way into a prompt.
VARIABLES site, fileName, fileContent, section

\* Invocations that run side by side in the same worker.
VARIABLES inv

\* IntelligentToDoSystem: the tasks of the active list as stored, the runs
\* of executeTask with the list each one captured, and what they did.
VARIABLES tasks, processingTask, runs, calls, called, issued, taskUpdates

\* EnhancedLiveDevServer: the log, the analysis flag as stored and as the
\* interval's callback captured it, the runs of analyzeAndAutoFix.
VARIABLES logs, logged, startPc, isRunning, isAnalyzing, intervalSees, timers,
          analyses, fixing, devCalls, triggers

\* The CreateProject page: one call of handleCreateProject.
VARIABLES page, createPc, isCreating, user, savedKeys, inserted,
          showPlanReview, location, pageToasts

gatewayVars == <<handler, apiKeys, selectedModels, pc, apiUrl, apiKey, model,
                 headers, requestBody, upstream, aiResponse, response>>

callerVars == <<caller, chatPc, isLoading, invocations, waited, replyData,
                replyError,
                messages, toasts, codeUpdates, plan, sends>>

promptVars == <<site, fileName, fileContent, section>>

todoVars == <<tasks, processingTask, runs, calls, called, issued, taskUpdates>>

devVars == <<logs, logged, startPc, isRunning, isAnalyzing, intervalSees,
             timers, analyses, fixing, devCalls, triggers>>

pageVars == <<page, createPc, isCreating, user, savedKeys, inserted,
              showPlanReview, location, pageToasts>>

vars == <<gatewayVars, callerVars, promptVars, inv, todoVars, devVars, pageVars>>

(***************************************************************************)
(* JavaScript string primitives.                                           *)
(***************************************************************************)
Min(a, b) == IF a < b THEN a ELSE b

\* The characters a..b of s (1-based, inclusive), cut to the string.
Slice(s, a, b) ==
  IF a < 1 \/ a > Len(s) \/ b < a THEN "" ELSE SubSeq(s, a, Min(b, Len(s)))

\* The character at index i, "" outside the string.
CharAt(s, i) == Slice(s, i, i)

\* String.prototype.substring(a, b) with 0-based, end-exclusive indices.
Substring(s, a, b) == Slice(s, a + 1, b)

IsSpace(c) == c \in {" ", "\n", "\t", "\r"}

RECURSIVE TrimStart(_)
TrimStart(s) ==
  IF Len(s) > 0 /\ IsSpace(CharAt(s, 1))
  THEN TrimStart(Slice(s, 2, Len(s)))
  ELSE s

RECURSIVE TrimEnd(_)
TrimEnd(s) ==
  IF Len(s) > 0 /\ IsSpace(CharAt(s, Len(s)))
  THEN TrimEnd(Slice(s, 1, Len(s) - 1))
  ELSE s

\* String.prototype.trim()
Trim(s) == TrimEnd(TrimStart(s))

\* String.prototype.includes(w)
Includes(s, w) ==
  \E i \in 1..(Len(s) - Len(w) + 1) : Slice(s, i, i + Len(w) - 1) = w

\* truthiness of a string value
TruthyStr(s) == s # ""

(***************************************************************************)
(* Providers, handlers and request inputs.                                 *)
(***************************************************************************)
Providers == {"openrouter", "openai", "deepseek", "gemini", "anthropic"}

\* ai-code-assistant/index.ts
CodeAssistant == "ai-code-assistant"
\* ai-project-generator/index.ts, first handler
ProjectGenerator == "ai-project-generator"
\* ai-project-generator/index.ts, second handler (normalizing code assistant)
CodeAssistantV2 == "ai-code-assistant-v2"
\* ai-project-generator/index.ts, third handler
CodeAssistantV3 == "ai-code-assistant-v3"

Handlers == {CodeAssistant, ProjectGenerator, CodeAssistantV2, CodeAssistantV3}

\* The five credential values a provider entry is drawn from: empty,
\* whitespace only, plain, padded with whitespace, and one whose text
\* contains the word anthropic.
KeySamples == {"", " ", "sk-1", " sk-1 ", "sk-anthropic-1"}

\* apiKeys: the provider entries that are present, each a string.
KeySets == UNION {[D -> KeySamples] : D \in SUBSET Providers}

\* Entries that are either absent or a plain key.
PlainKeySets == UNION {[D -> {"sk-1"}] : D \in SUBSET Providers}

ModelSamples == {"", "custom-model"}

\* apiKeys.selectedModels: the overrides that are present (an absent
\* selectedModels object reads like one with no entries).
ModelSets == UNION {[D -> ModelSamples] : D \in SUBSET Providers}

NoOverrides == [p \in {} |-> ""]

AllOverridden == [p \in Providers |-> "custom-model"]

(***************************************************************************)
(* JavaScript values: parsed JSON, response bodies.                        *)
(***************************************************************************)
Undefined == [t |-> "undefined"]
Null      == [t |-> "null"]
Bool(b)   == [t |-> "boolean", b |-> b]
Num(n)    == [t |-> "number", n |-> n]
Str(s)    == [t |-> "string", s |-> s]
Arr(a)    == [t |-> "array", a |-> a]      \* a: sequence of values
Obj(f)    == [t |-> "object", f |-> f]     \* f: property name -> value

EmptyObj  == Obj([k \in {} |-> Undefined])

IsStr(v) == v.t = "string"
IsArr(v) == v.t = "array"
IsObj(v) == v.t = "object"

\* ToBoolean
Truthy(v) ==
  CASE v.t = "undefined" -> FALSE
    [] v.t = "null"      -> FALSE
    [] v.t = "boolean"   -> v.b
    [] v.t = "number"    -> v.n # 0
    [] v.t = "string"    -> v.s # ""
    [] OTHER             -> TRUE

(***************************************************************************)
(* JSON.parse and JSON.stringify, for the JSON texts without fractions,    *)
(* exponents, negative numbers and \b \f \u escapes.                       *)
(***************************************************************************)
DigitChars == "0123456789"

IsDigit(c) == c # "" /\ Includes(DigitChars, c)

DigitValue(c) == CHOOSE d \in 0..9 : CharAt(DigitChars, d + 1) = c

RECURSIVE IntToStr(_)
IntToStr(n) ==
  IF n < 10 THEN CharAt(DigitChars, n + 1)
  ELSE IntToStr(n \div 10) \o CharAt(DigitChars, (n % 10) + 1)

ParseFail == [ok |-> FALSE, v |-> Undefined, next |-> 0]

Parsed(v, next) == [ok |-> TRUE, v |-> v, next |-> next]

\* The first index >= i that holds no JSON white space.
RECURSIVE SkipWs(_, _)
SkipWs(s, i) ==
  IF i <= Len(s) /\ IsSpace(CharAt(s, i)) THEN SkipWs(s, i + 1) ELSE i

\* The characters of a string literal, from index i up to its closing quote.
RECURSIVE ParseChars(_, _, _)
ParseChars(s, i, acc) ==
  IF i > Len(s) THEN ParseFail
  ELSE LET c == CharAt(s, i) IN
    IF c = "\"" THEN Parsed(Str(acc), i + 1)
    ELSE IF c \in {"\n", "\t", "\r"} THEN ParseFail
    ELSE IF c = "\\" THEN
      LET e == CharAt(s, i + 1) IN
        IF e = "n" THEN ParseChars(s, i + 2, acc \o "\n")
        ELSE IF e = "t" THEN ParseChars(s, i + 2, acc \o "\t")
        ELSE IF e = "r" THEN ParseChars(s, i + 2, acc \o "\r")
        ELSE IF e \in {"\"", "\\", "/"} THEN ParseChars(s, i + 2, acc \o e)
        ELSE ParseFail
    ELSE ParseChars(s, i + 1, acc \o c)

\* A string literal at index i; a literal without escapes is cut out whole.
ParseString(s, i) ==
  IF CharAt(s, i) # "\"" THEN ParseFail
  ELSE LET ends == {j \in (i + 1)..Len(s) : CharAt(s, j) \in {"\"", "\\", "\n", "\t", "\r"}} IN
    IF ends = {} THEN ParseFail
    ELSE LET j == CHOOSE x \in ends : \A y \in ends : x <= y IN
      IF CharAt(s, j) = "\"" THEN Parsed(Str(Slice(s, i + 1, j - 1)), j + 1)
      ELSE ParseChars(s, i + 1, "")

RECURSIVE ParseDigits(_, _, _)
ParseDigits(s, i, n) ==
  IF i <= Len(s) /\ IsDigit(CharAt(s, i))
  THEN ParseDigits(s, i + 1, 10 * n + DigitValue(CharAt(s, i)))
  ELSE Parsed(Num(n), i)

ParseNumber(s, i) ==
  IF CharAt(s, i) = "0" THEN Parsed(Num(0), i + 1)
  ELSE ParseDigits(s, i, 0)

RECURSIVE ParseValue(_, _), ParseElements(_, _, _), ParseMembers(_, _, _)
ParseValue(s, i0) ==
  LET i == SkipWs(s, i0)
      c == CharAt(s, i)
  IN  IF i > Len(s) THEN ParseFail
      ELSE IF c = "\"" THEN ParseString(s, i)
      ELSE IF IsDigit(c) THEN ParseNumber(s, i)
      ELSE IF Slice(s, i, i + 3) = "null" THEN Parsed(Null, i + 4)
      ELSE IF Slice(s, i, i + 3) = "true" THEN Parsed(Bool(TRUE), i + 4)
      ELSE IF Slice(s, i, i + 4) = "false" THEN Parsed(Bool(FALSE), i + 5)
      ELSE IF c = "[" THEN
        LET j == SkipWs(s, i + 1) IN
          IF CharAt(s, j) = "]" THEN Parsed(Arr(<<>>), j + 1)
          ELSE ParseElements(s, i + 1, <<>>)
      ELSE IF c = "{" THEN
        LET j == SkipWs(s, i + 1) IN
          IF CharAt(s, j) = "}" THEN Parsed(EmptyObj, j + 1)
          ELSE ParseMembers(s, i + 1, EmptyObj.f)
      ELSE ParseFail

\* value ("," value)* "]"
ParseElements(s, i, acc) ==
  LET r == ParseValue(s, i) IN
    IF ~r.ok THEN ParseFail
    ELSE LET j == SkipWs(s, r.next) IN
      IF CharAt(s, j) = "," THEN ParseElements(s, j + 1, Append(acc, r.v))
      ELSE IF CharAt(s, j) = "]" THEN Parsed(Arr(Append(acc, r.v)), j + 1)
      ELSE ParseFail

\* string ":" value ("," string ":" value)* "}"; a repeated name keeps the
\* last value.
ParseMembers(s, i, acc) ==
  LET k == ParseString(s, SkipWs(s, i)) IN
    IF ~k.ok THEN ParseFail
    ELSE LET c == SkipWs(s, k.next) IN
      IF CharAt(s, c) # ":" THEN ParseFail
      ELSE LET r == ParseValue(s, c + 1) IN
        IF ~r.ok THEN ParseFail
        ELSE LET j == SkipWs(s, r.next)
                 f == (k.v.s :> r.v) @@ acc
             IN  IF CharAt(s, j) = "," THEN ParseMembers(s, j + 1, f)
                 ELSE IF CharAt(s, j) = "}" THEN Parsed(Obj(f), j + 1)
                 ELSE ParseFail

\* JSON.parse(s): ok is FALSE where it throws SyntaxError.
JSONParse(s) ==
  LET r == ParseValue(s, 1) IN
    IF r.ok /\ SkipWs(s, r.next) = Len(s) + 1 THEN r ELSE ParseFail

RECURSIVE EscapeChars(_)
EscapeChars(s) ==
  IF s = "" THEN ""
  ELSE LET c == CharAt(s, 1)
           e == CASE c = "\"" -> "\\\""
                  [] c = "\\" -> "\\\\"
                  [] c = "\n" -> "\\n"
                  [] c = "\t" -> "\\t"
                  [] c = "\r" -> "\\r"
                  [] OTHER    -> c
       IN  e \o EscapeChars(Slice(s, 2, Len(s)))

\* The quoted form of a string; one without special characters is quoted whole.
Quote(s) ==
  IF \E c \in {"\"", "\\", "\n", "\t", "\r"} : Includes(s, c)
  THEN "\"" \o EscapeChars(s) \o "\""
  ELSE "\"" \o s \o "\""

\* The names of a set of property names, in some fixed order.
RECURSIVE NamesOf(_)
NamesOf(D) ==
  IF D = {} THEN <<>>
  ELSE LET k == CHOOSE x \in D : TRUE IN <<k>> \o NamesOf(D \ {k})

RECURSIVE Stringify(_), StringifyElements(_, _), StringifyMembers(_, _, _)
\* JSON.stringify(v) of a value that is not undefined.
Stringify(v) ==
  CASE v.t = "null"      -> "null"
    [] v.t = "undefined" -> "null"
    [] v.t = "boolean"   -> IF v.b THEN "true" ELSE "false"
    [] v.t = "number"    -> IntToStr(v.n)
    [] v.t = "string"    -> Quote(v.s)
    [] v.t = "array"     -> "[" \o StringifyElements(v.a, 1) \o "]"
    [] v.t = "object"    ->
         "{" \o StringifyMembers(v.f, NamesOf({k \in DOMAIN v.f : v.f[k] # Undefined}), 1)
             \o "}"

StringifyElements(a, i) ==
  IF i > Len(a) THEN ""
  ELSE (IF i > 1 THEN "," ELSE "") \o Stringify(a[i]) \o StringifyElements(a, i + 1)

StringifyMembers(f, names, i) ==
  IF i > Len(names) THEN ""
  ELSE (IF i > 1 THEN "," ELSE "") \o Quote(names[i]) \o ":"
         \o Stringify(f[names[i]]) \o StringifyMembers(f, names, i + 1)

(***************************************************************************)
(* route: provider selection.                                              *)
(***************************************************************************)
\* Mutant of Configured: the entry is not trimmed.
ConfiguredUntrimmed(keys, p) ==
  /\ p \in DOMAIN keys
  /\ TruthyStr(keys[p])

\* apiKeys?.p && apiKeys.p.trim()
Configured(keys, p) ==
  /\ p \in DOMAIN keys
  /\ TruthyStr(keys[p])
  /\ TruthyStr(Trim(keys[p]))

\* apiKeys?.selectedModels?.p || dflt
OverrideOr(models, p, dflt) ==
  IF p \in DOMAIN models /\ TruthyStr(models[p]) THEN models[p] ELSE dflt

EndpointOf(p, key) ==
  CASE p = "openrouter" -> "https://openrouter.ai/api/v1/chat/completions"
    [] p = "openai"     -> "https://api.openai.com/v1/chat/completions"
    [] p = "deepseek"   -> "https://api.deepseek.com/chat/completions"
    [] p = "gemini"     ->
         "https://generativelanguage.googleapis.com/v1beta/models/gemini-2.5-flash:generateContent?key="
           \o key
    [] p = "anthropic"  -> "https://api.anthropic.com/v1/messages"

DefaultModel(h, p) ==
  CASE p = "openrouter" ->
         IF h \in {CodeAssistant, ProjectGenerator}
         THEN "meta-llama/llama-3.2-3b-instruct:free"
         ELSE "meta-llama/llama-3.1-70b-instruct:free"
    [] p = "openai"     ->
         IF h = ProjectGenerator THEN "gpt-4o-mini" ELSE "gpt-5-2025-08-07"
    [] p = "deepseek"   -> "deepseek-coder"
    [] p = "gemini"     -> "gemini-2.5-flash"
    [] p = "anthropic"  ->
         IF h = ProjectGenerator THEN "claude-3-haiku-20240307"
         ELSE "claude-3-5-haiku-20241022"

\* model = ... : the override is read for openrouter, openai and anthropic
\* in the code-assistant handlers and nowhere else.
ModelFor(h, p, models) ==
  IF h # ProjectGenerator /\ p \in {"openrouter", "openai", "anthropic"}
  THEN OverrideOr(models, p, DefaultModel(h, p))
  ELSE DefaultModel(h, p)

BaseHeaders == [n \in {"Content-Type"} |-> "application/json"]

HeadersFor(h, p, key) ==
  CASE p = "openrouter" ->
         BaseHeaders @@ ("Authorization" :> ("Bearer " \o key))
                     @@ ("HTTP-Referer" :> "https://webcrafter.ai")
                     @@ ("X-Title" :> (IF h \in {CodeAssistant, ProjectGenerator}
                                       THEN "AI Website Builder"
                                       ELSE "WebCrafter AI"))
    [] p \in {"openai", "deepseek"} ->
         BaseHeaders @@ ("Authorization" :> ("Bearer " \o key))
    [] p = "gemini" -> BaseHeaders
    [] p = "anthropic" ->
         BaseHeaders @@ ("Authorization" :> ("Bearer " \o key))
                     @@ ("anthropic-version" :> "2023-06-01")

\* The assignments of one branch of the if/else chain.
Branch(h, p, keys, models) ==
  [kind |-> "selected", apiUrl |-> EndpointOf(p, keys[p]), apiKey |-> keys[p],
   model |-> ModelFor(h, p, models), headers |-> HeadersFor(h, p, keys[p]),
   error |-> ""]

\* No branch taken: the variables keep their initial values.
NoBranch ==
  [kind |-> "none", apiUrl |-> "", apiKey |-> "", model |-> "",
   headers |-> BaseHeaders, error |-> ""]

Thrown(msg) ==
  [kind |-> "throw", apiUrl |-> "", apiKey |-> "", model |-> "",
   headers |-> BaseHeaders, error |-> msg]

GeminiComingSoon == "Gemini API integration coming soon"
NoValidKey == "No valid API key provided. Please configure at least one API key."
NoKeyConfigured == "No API key configured"

\* Mutant of RouteAssistant: openai is tested before openrouter.
RouteAssistantOpenAIFirst(h, keys, models) ==
  IF Configured(keys, "openai") THEN Branch(h, "openai", keys, models)
  ELSE IF Configured(keys, "openrouter") THEN Branch(h, "openrouter", keys, models)
  ELSE IF Configured(keys, "deepseek") THEN Branch(h, "deepseek", keys, models)
  ELSE IF Configured(keys, "gemini") THEN Branch(h, "gemini", keys, models)
  ELSE IF Configured(keys, "anthropic") THEN Branch(h, "anthropic", keys, models)
  ELSE NoBranch

\* The if/else chain of the code-assistant handlers.
RouteAssistant(h, keys, models) ==
  IF Configured(keys, "openrouter") THEN Branch(h, "openrouter", keys, models)
  ELSE IF Configured(keys, "openai") THEN Branch(h, "openai", keys, models)
  ELSE IF Configured(keys, "deepseek") THEN Branch(h, "deepseek", keys, models)
  ELSE IF Configured(keys, "gemini") THEN Branch(h, "gemini", keys, models)
  ELSE IF Configured(keys, "anthropic") THEN Branch(h, "anthropic", keys, models)
  ELSE NoBranch

\* Mutant of RouteGenerator: gemini is skipped in favour of anthropic.
RouteGeneratorSkipsGemini(h, keys, models) ==
  IF Configured(keys, "openrouter") THEN Branch(h, "openrouter", keys, models)
  ELSE IF Configured(keys, "openai") THEN Branch(h, "openai", keys, models)
  ELSE IF Configured(keys, "deepseek") THEN Branch(h, "deepseek", keys, models)
  ELSE IF Configured(keys, "anthropic") THEN Branch(h, "anthropic", keys, models)
  ELSE Thrown(NoValidKey)

\* The if/else chain of the project generator.
RouteGenerator(h, keys, models) ==
  IF Configured(keys, "openrouter") THEN Branch(h, "openrouter", keys, models)
  ELSE IF Configured(keys, "openai") THEN Branch(h, "openai", keys, models)
  ELSE IF Configured(keys, "deepseek") THEN Branch(h, "deepseek", keys, models)
  ELSE IF Configured(keys, "gemini") THEN Thrown(GeminiComingSoon)
  ELSE IF Configured(keys, "anthropic") THEN Branch(h, "anthropic", keys, models)
  ELSE Thrown(NoValidKey)

RouteOf(h, keys, models) ==
  IF h = ProjectGenerator THEN RouteGenerator(h, keys, models)
  ELSE RouteAssistant(h, keys, models)

(***************************************************************************)
(* buildRequestBody: the provider envelope, chosen by the text of apiUrl.  *)
(***************************************************************************)
\* The prompt text (context / systemPrompt) of the handler.
InstructionText(h) ==
  IF h = ProjectGenerator THEN "<systemPrompt>" ELSE "<context>"

MaxTokens == 8000

UserMessages(text) ==
  Arr(<<Obj(("role" :> Str("user")) @@ ("content" :> Str(text)))>>)

AnthropicBody(m, text) ==
  Obj(("model" :> Str(m)) @@ ("max_tokens" :> Num(MaxTokens))
      @@ ("messages" :> UserMessages(text)))

GeminiBody(text) ==
  Obj(("contents" :> Arr(<<Obj("parts" :> Arr(<<Obj("text" :> Str(text))>>))>>))
      @@ ("generationConfig" :>
            Obj(("temperature" :> Str("0.7")) @@ ("topP" :> Str("0.9"))
                @@ ("maxOutputTokens" :> Num(MaxTokens))
                @@ ("responseMimeType" :> Str("application/json")))))

OpenAIBody(h, m, text) ==
  Obj(("model" :> Str(m)) @@ ("messages" :> UserMessages(text))
      @@ ("max_tokens" :> Num(MaxTokens))
      @@ ("temperature" :> Str(IF h = ProjectGenerator THEN "0.8" ELSE "0.7"))
      @@ ("top_p" :> Str("0.9"))
      @@ ("response_format" :> Obj("type" :> Str("json_object"))))

BuildBody(h, url, m) ==
  IF Includes(url, "anthropic") THEN AnthropicBody(m, InstructionText(h))
  ELSE IF h # ProjectGenerator /\ Includes(url, "gemini")
       THEN GeminiBody(InstructionText(h))
  ELSE OpenAIBody(h, m, InstructionText(h))

(***************************************************************************)
(* Responses of the handlers.                                              *)
(***************************************************************************)
\* A response: the HTTP status and the body, JSON.stringify of a value.
NoResponse == [status |-> 0, body |-> ""]

\* if (!apiKey) return ... status 400
NoKeyResponse ==
  [status |-> 400,
   body |-> Stringify(
              Obj(("error" :> Str(NoKeyConfigured))
                  @@ ("response" :> Str("Please configure your API keys in Settings."))
                  @@ ("codeChanges" :> Arr(<<>>))))]

\* The outer catch of the handler.
ErrorResponse(h, msg) ==
  [status |-> 500,
   body |-> Stringify(
              IF h = ProjectGenerator
              THEN Obj(("error" :> Str(msg)) @@ ("files" :> EmptyObj)
                       @@ ("structure" :> Str("Error generating project"))
                       @@ ("features" :> Arr(<<>>))
                       @@ ("instructions" :>
                             Str("Please try again with different parameters")))
              ELSE Obj(("error" :> Str(msg))
                       @@ ("response" :>
                             Str("I encountered an error processing your request. Please try again or check your API configuration."))
                       @@ ("codeChanges" :> Arr(<<>>))))]

OkResponse(v) == [status |-> 200, body |-> Stringify(v)]

NoReply == [ok |-> FALSE, status |-> 0, statusText |-> "", data |-> Undefined]

(***************************************************************************)
(* send: the upstream replies an invocation may receive.                   *)
(***************************************************************************)
StatusText(code) ==
  CASE code = 200 -> "OK"
    [] code = 401 -> "Unauthorized"
    [] code = 429 -> "Too Many Requests"
    [] OTHER      -> "Internal Server Error"

Reply(code, data) ==
  [ok |-> (code >= 200 /\ code <= 299), status |-> code,
   statusText |-> StatusText(code), data |-> data]

\* throw new Error('API error: ...') after a non-2xx reply
UpstreamErrorMessage(h, r) ==
  IF h = ProjectGenerator
  THEN "OpenRouter API error: " \o IntToStr(r.status)
  ELSE "API error: " \o IntToStr(r.status) \o " - " \o r.statusText

(***************************************************************************)
(* extractText: the provider-specific path into the reply.                 *)
(***************************************************************************)
Nullish(v) == v.t \in {"undefined", "null"}

\* v.k of a value that is neither null nor undefined
Prop(v, k) == IF IsObj(v) /\ k \in DOMAIN v.f THEN v.f[k] ELSE Undefined

\* v?.k
OptProp(v, k) == IF Nullish(v) THEN Undefined ELSE Prop(v, k)

\* v[0] of a value that is neither null nor undefined
First(v) == IF IsArr(v) /\ Len(v.a) > 0 THEN v.a[1] ELSE Undefined

Extracted(v) == [threw |-> FALSE, v |-> v, error |-> ""]

Raised(msg) == [threw |-> TRUE, v |-> Undefined, error |-> msg]

CannotRead == "Cannot read properties of undefined"

\* data.content[0]?.text
AnthropicText(data) ==
  IF Nullish(data) \/ Nullish(Prop(data, "content")) THEN Raised(CannotRead)
  ELSE Extracted(OptProp(First(Prop(data, "content")), "text"))

\* data.candidates[0]?.content?.parts[0]?.text
GeminiText(data) ==
  IF Nullish(data) \/ Nullish(Prop(data, "candidates")) THEN Raised(CannotRead)
  ELSE LET parts == OptProp(OptProp(First(Prop(data, "candidates")), "content"), "parts") IN
    IF Nullish(parts)
    THEN IF Nullish(OptProp(First(Prop(data, "candidates")), "content"))
         THEN Extracted(Undefined)
         ELSE Raised(CannotRead)
    ELSE Extracted(OptProp(First(parts), "text"))

\* data.choices[0]?.message?.content
OpenAIText(data) ==
  IF Nullish(data) \/ Nullish(Prop(data, "choices")) THEN Raised(CannotRead)
  ELSE Extracted(OptProp(OptProp(First(Prop(data, "choices")), "message"), "content"))

NoResponseFromAI == "No response from AI"

ExtractOf(h, url, data) ==
  LET r == IF Includes(url, "anthropic") THEN AnthropicText(data)
           ELSE IF h # ProjectGenerator /\ Includes(url, "gemini") THEN GeminiText(data)
           ELSE OpenAIText(data)
  IN  IF r.threw THEN r
      ELSE IF ~Truthy(r.v) THEN Raised(NoResponseFromAI)
      ELSE r

(***************************************************************************)
(* normalize: parse of the extracted text and its fallbacks.               *)
(***************************************************************************)
RECURSIVE ToStringJS(_), JoinJS(_, _)
\* String(v), the coercion JSON.parse applies to its argument
ToStringJS(v) ==
  CASE v.t = "string"    -> v.s
    [] v.t = "number"    -> IntToStr(v.n)
    [] v.t = "boolean"   -> IF v.b THEN "true" ELSE "false"
    [] v.t = "null"      -> "null"
    [] v.t = "undefined" -> "undefined"
    [] v.t = "array"     -> JoinJS(v.a, 1)
    [] v.t = "object"    -> "[object Object]"

JoinJS(a, i) ==
  IF i > Len(a) THEN ""
  ELSE (IF i > 1 THEN "," ELSE "")
         \o (IF Nullish(a[i]) THEN "" ELSE ToStringJS(a[i]))
         \o JoinJS(a, i + 1)

WordChars == "abcdefghijklmnopqrstuvwxyzABCDEFGHIJKLMNOPQRSTUVWXYZ0123456789_"

IsWordChar(c) == c # "" /\ Includes(WordChars, c)

RECURSIVE SkipWord(_, _)
SkipWord(s, i) ==
  IF i <= Len(s) /\ IsWordChar(CharAt(s, i)) THEN SkipWord(s, i + 1) ELSE i

\* The grave accent (U+0060), which a TLA+ string literal cannot hold, is
\* written ~ in every text of this module.
Tick == "~"

Fence == Tick \o Tick \o Tick

\* The regular expression /FENCE[\w]*\n([\s\S]*?)\nFENCE/ anchored at index
\* i: the body and the index after the match.
MatchAt(s, i) ==
  IF Slice(s, i, i + 2) # Fence THEN [ok |-> FALSE, body |-> "", next |-> 0]
  ELSE LET k == SkipWord(s, i + 3) IN
    IF CharAt(s, k) # "\n" THEN [ok |-> FALSE, body |-> "", next |-> 0]
    ELSE LET ends == {e \in (k + 1)..Len(s) : Slice(s, e, e + 3) = "\n" \o Fence} IN
      IF ends = {} THEN [ok |-> FALSE, body |-> "", next |-> 0]
      ELSE LET e == CHOOSE x \in ends : \A y \in ends : x <= y IN
        [ok |-> TRUE, body |-> Slice(s, k + 1, e - 1), next |-> e + 4]

\* [...s.matchAll(codeBlockRegex)]: the bodies of the successive matches
\* from index i on.
RECURSIVE MatchAll(_, _)
MatchAll(s, i) ==
  LET starts == {j \in i..Len(s) : MatchAt(s, j).ok} IN
    IF starts = {} THEN <<>>
    ELSE LET j == CHOOSE x \in starts : \A y \in starts : x <= y IN
      <<MatchAt(s, j).body>> \o MatchAll(s, MatchAt(s, j).next)

DisplayLimit == 500

GeneratedName(n) == "generated-file-" \o IntToStr(n) \o ".tsx"

\* matches.forEach((match, index) => files['generated-file-' + (index + 1) + '.tsx'] = match[1])
GeneratedFiles(bodies) ==
  [name \in {GeneratedName(n) : n \in 1..Len(bodies)} |->
     Str(bodies[CHOOSE n \in 1..Len(bodies) : GeneratedName(n) = name])]

\* Mutant of ChangesToFiles: the first pair of a file is kept, not the last.
RECURSIVE ChangesToFilesFirstWins(_, _, _)
ChangesToFilesFirstWins(a, i, files) ==
  IF i > Len(a) THEN [threw |-> FALSE, files |-> files]
  ELSE IF Nullish(a[i]) THEN [threw |-> TRUE, files |-> files]
  ELSE IF Truthy(Prop(a[i], "file")) /\ Truthy(Prop(a[i], "content"))
  THEN ChangesToFilesFirstWins(a, i + 1,
         files @@ (ToStringJS(Prop(a[i], "file")) :> Prop(a[i], "content")))
  ELSE ChangesToFilesFirstWins(a, i + 1, files)

\* codeChanges.forEach(change => { if (change.file && change.content) ... })
RECURSIVE ChangesToFiles(_, _, _)
ChangesToFiles(a, i, files) ==
  IF i > Len(a) THEN [threw |-> FALSE, files |-> files]
  ELSE IF Nullish(a[i]) THEN [threw |-> TRUE, files |-> files]
  ELSE IF Truthy(Prop(a[i], "file")) /\ Truthy(Prop(a[i], "content"))
  THEN ChangesToFiles(a, i + 1,
         (ToStringJS(Prop(a[i], "file")) :> Prop(a[i], "content")) @@ files)
  ELSE ChangesToFiles(a, i + 1, files)

\* if (!parsedResponse.files && parsedResponse.codeChanges) { ... }
WithLegacyFiles(p) ==
  IF ~Truthy(Prop(p, "files")) /\ Truthy(Prop(p, "codeChanges"))
  THEN LET cc == Prop(p, "codeChanges") IN
    IF ~IsArr(cc) THEN Raised("parsedResponse.codeChanges.forEach is not a function")
    ELSE LET r == ChangesToFiles(cc.a, 1, EmptyObj.f) IN
      IF r.threw THEN Raised(CannotRead)
      ELSE Extracted(Obj(("files" :> Obj(r.files)) @@ p.f))
  ELSE Extracted(p)

\* Mutant of WithResponse: the default message replaces the parsed object.
WithResponseOnly(p) ==
  IF ~Truthy(Prop(p, "response")) /\ ~Truthy(Prop(p, "analysis"))
  THEN IF IsObj(p)
       THEN Extracted(Obj("response" :> Str("Changes have been applied successfully.")))
       ELSE IF IsArr(p) THEN Extracted(p)
       ELSE Raised("Cannot create property 'response'")
  ELSE Extracted(p)

\* if (!parsedResponse.response && !parsedResponse.analysis) { ... }; the
\* module is strict code, where assigning a property of a primitive throws.
WithResponse(p) ==
  IF ~Truthy(Prop(p, "response")) /\ ~Truthy(Prop(p, "analysis"))
  THEN IF IsObj(p)
       THEN Extracted(Obj(("response" :> Str("Changes have been applied successfully."))
                          @@ p.f))
       ELSE IF IsArr(p) THEN Extracted(p)
       ELSE Raised("Cannot create property 'response'")
  ELSE Extracted(p)

\* The steps of the try block after JSON.parse: the translation of
\* codeChanges, then the default of response.
AfterLegacy(l) == IF l.threw THEN l ELSE WithResponse(l.v)

AfterParse(r) ==
  IF ~r.ok THEN Raised("SyntaxError")
  ELSE IF Nullish(r.v) THEN Raised(CannotRead)
  ELSE AfterLegacy(WithLegacyFiles(r.v))

\* The try block of the normalizing handler.
NormalizeTry(ai) == AfterParse(JSONParse(ToStringJS(ai)))

\* The catch block of the normalizing handler.
NormalizeCatch(ai) ==
  IF ~IsStr(ai) THEN Raised("aiResponse.matchAll is not a function")
  ELSE LET bodies == MatchAll(ai.s, 1) IN
    IF Len(bodies) > 0
    THEN Extracted(Obj(("analysis" :> Str("Extracted code from AI response"))
                       @@ ("files" :> Obj(GeneratedFiles(bodies)))
                       @@ ("summary" :> Str("Generated code files from AI response"))
                       @@ ("response" :> Str("Code extracted and applied successfully."))))
    ELSE Extracted(Obj(("analysis" :> Str("AI response could not be parsed"))
                       @@ ("response" :>
                             Str(Substring(ai.s, 0, DisplayLimit)
                                 \o (IF Len(ai.s) > DisplayLimit THEN "..." ELSE "")))
                       @@ ("files" :> EmptyObj)
                       @@ ("summary" :>
                             Str("Response processed but no code changes identified"))))

\* try { ... } catch (error) { ... }: the catch block runs where the try
\* block threw.
OrCatch(r, ai) == IF r.threw THEN NormalizeCatch(ai) ELSE r

\* ai-project-generator/index.ts, second handler
NormalizeV2(ai) == OrCatch(NormalizeTry(ai), ai)

\* catch { parsedResponse = { response: ..., codeChanges: [] } }
OrCanned(r) ==
  IF r.ok THEN Extracted(r.v)
  ELSE Extracted(Obj(("response" :>
                        Str("Changes applied. Unable to parse full response."))
                     @@ ("codeChanges" :> Arr(<<>>))))

\* ai-code-assistant/index.ts and the third handler
NormalizeV1(ai) == OrCanned(JSONParse(ToStringJS(ai)))

\* catch { throw new Error('Failed to parse AI response') }
OrFailed(r) ==
  IF r.ok THEN Extracted(r.v) ELSE Raised("Failed to parse AI response")

\* ai-project-generator/index.ts, first handler
NormalizeGenerator(ai) == OrFailed(JSONParse(ToStringJS(ai)))

NormalizeOf(h, ai) ==
  IF h = ProjectGenerator THEN NormalizeGenerator(ai)
  ELSE IF h = CodeAssistantV2 THEN NormalizeV2(ai)
  ELSE NormalizeV1(ai)

(***************************************************************************)
(* The contents a model may return, and the replies that carry them.       *)
(***************************************************************************)
FileNames == {"a.txt", "b.txt"}

FileContents == {Str("hello"), Str(""), Str(" "), Num(5)}

FileMaps == UNION {[D -> FileContents] : D \in SUBSET FileNames}

Change(file, content) == Obj(("file" :> Str(file)) @@ ("content" :> Str(content)))

ChangeSamples ==
  {Change("a.txt", "x"), Change("a.txt", "y"), Change("b.txt", "x"),
   Change("b.txt", ""), Obj("file" :> Str("a.txt")), Obj("content" :> Str("x")),
   Null}

MaxChanges == 2

ChangeLists == UNION {[1..n -> ChangeSamples] : n \in 0..MaxChanges}

\* The JSON values a model may answer with.
JsonSamples ==
  {Obj("files" :> Obj(m)) : m \in FileMaps}
    \cup {Obj("codeChanges" :> Arr(l)) : l \in ChangeLists}
    \cup {Obj("codeChanges" :> c) : c \in {Str("x"), Num(5), EmptyObj}}
    \cup {Obj(("files" :> Null) @@ ("codeChanges" :> Arr(<<Change("a.txt", "x")>>))),
          Obj(("files" :> Obj("a.txt" :> Str("hello")))
              @@ ("codeChanges" :> Arr(<<Change("b.txt", "x")>>))),
          Obj(("files" :> Obj("a.txt" :> Str("hello"))) @@ ("summary" :> Str("done"))),
          Obj("response" :> Str("ok")), Obj("analysis" :> Str("plan")),
          Obj("summary" :> Str("done")), EmptyObj, Null, Num(5), Str("abc"),
          Arr(<<>>), Bool(TRUE)}

JsonTexts == {Stringify(v) : v \in JsonSamples}

Block(lang, body) == Fence \o lang \o "\n" \o body \o "\n" \o Fence

\* The pieces a text that is not JSON is made of: prose, fenced blocks with
\* and without a language tag, and a fence that is never closed.
Segments ==
  {"plain text, no JSON", Block("js", "console.log(1)"), Block("", "x\ny"),
   Block("c++", "A"), Fence \o "ts\nB"}

MaxSegments == 2

RECURSIVE JoinLines(_, _)
JoinLines(q, i) ==
  IF i > Len(q) THEN ""
  ELSE (IF i > 1 THEN "\n" ELSE "") \o q[i] \o JoinLines(q, i + 1)

RawTexts ==
  {JoinLines(q, 1) : q \in UNION {[1..n -> Segments] : n \in 1..MaxSegments}}

RECURSIVE Repeat(_, _)
Repeat(c, n) ==
  IF n = 0 THEN ""
  ELSE IF n % 2 = 0 THEN LET h == Repeat(c, n \div 2) IN h \o h
  ELSE c \o Repeat(c, n - 1)

\* Texts around the display limit of the fallback message.
LongTexts == {Repeat("x", n) : n \in {DisplayLimit - 1, DisplayLimit, DisplayLimit + 1}}

\* What the text field of a reply may hold.
AiContents ==
  {Str(t) : t \in JsonTexts \cup RawTexts \cup LongTexts}
    \cup {Str(""), Null, Num(5),
          Arr(<<Obj(("type" :> Str("text")) @@ ("text" :> Str("hi")))>>)}

AnthropicData(c) ==
  Obj("content" :> Arr(<<Obj(("type" :> Str("text")) @@ ("text" :> c))>>))

GeminiData(c) ==
  Obj("candidates" :>
        Arr(<<Obj("content" :> Obj("parts" :> Arr(<<Obj("text" :> c)>>)))>>))

OpenAIData(c) ==
  Obj("choices" :>
        Arr(<<Obj("message" :> Obj(("role" :> Str("assistant")) @@ ("content" :> c)))>>))

\* Replies that carry no text at all.
EmptyData ==
  {EmptyObj, Obj("choices" :> Arr(<<>>)), Obj("content" :> Arr(<<>>)),
   Obj("candidates" :> Arr(<<>>)), Obj("candidates" :> Arr(<<EmptyObj>>)),
   Obj("candidates" :> Arr(<<Obj("content" :> EmptyObj)>>)),
   Obj("choices" :> Arr(<<EmptyObj>>))}

ErrorStatuses == {401, 429, 500}

Replies ==
  {Reply(200, d) : d \in {AnthropicData(c) : c \in AiContents}
                          \cup {GeminiData(c) : c \in AiContents}
                          \cup {OpenAIData(c) : c \in AiContents}
                          \cup EmptyData}
    \cup {Reply(code, EmptyObj) : code \in ErrorStatuses}

\* Credential sets with at most one plain key.
SingleKeySets == {k \in PlainKeySets : Cardinality(DOMAIN k) <= 1}

(***************************************************************************)
(* The invocation, stage by stage.                                         *)
(***************************************************************************)
Route ==
  /\ pc = "start"
  /\ LET r == RouteOf(handler, apiKeys, selectedModels) IN
       /\ apiUrl' = r.apiUrl
       /\ apiKey' = r.apiKey
       /\ model' = r.model
       /\ headers' = r.headers
       /\ IF r.kind = "throw"
          THEN /\ response' = ErrorResponse(handler, r.error)
               /\ pc' = "done"
          ELSE IF ~TruthyStr(r.apiKey)
          THEN /\ response' = NoKeyResponse
               /\ pc' = "done"
          ELSE /\ response' = response
               /\ pc' = "routed"
  /\ UNCHANGED <<handler, apiKeys, selectedModels, requestBody, upstream,
                 aiResponse>>
  /\ UNCHANGED <<callerVars, promptVars, inv, todoVars, devVars, pageVars>>

BuildRequestBody ==
  /\ pc = "routed"
  /\ requestBody' = BuildBody(handler, apiUrl, model)
  /\ pc' = "built"
  /\ UNCHANGED <<handler, apiKeys, selectedModels, apiUrl, apiKey, model,
                 headers, upstream, aiResponse, response>>
  /\ UNCHANGED <<callerVars, promptVars, inv, todoVars, devVars, pageVars>>

\* Mutant of Send: the POST may be issued again after a reply.
SendAgain ==
  /\ pc \in {"built", "sent"}
  /\ \E r \in Replies :
       /\ upstream' = r
       /\ IF ~r.ok
          THEN /\ response' = ErrorResponse(handler, UpstreamErrorMessage(handler, r))
               /\ pc' = "done"
          ELSE /\ response' = response
               /\ pc' = "sent"
  /\ UNCHANGED <<handler, apiKeys, selectedModels, apiUrl, apiKey, model,
                 headers, requestBody, aiResponse>>
  /\ UNCHANGED <<callerVars, promptVars, inv, todoVars, devVars, pageVars>>

\* await fetch(apiUrl, ...) and the check of response.ok
Send ==
  /\ pc = "built"
  /\ \E r \in Replies :
       /\ upstream' = r
       /\ IF ~r.ok
          THEN /\ response' = ErrorResponse(handler, UpstreamErrorMessage(handler, r))
               /\ pc' = "done"
          ELSE /\ response' = response
               /\ pc' = "sent"
  /\ UNCHANGED <<handler, apiKeys, selectedModels, apiUrl, apiKey, model,
                 headers, requestBody, aiResponse>>
  /\ UNCHANGED <<callerVars, promptVars, inv, todoVars, devVars, pageVars>>

\* await response.json(), the provider path and the check of aiResponse
ExtractText ==
  /\ pc = "sent"
  /\ LET e == ExtractOf(handler, apiUrl, upstream.data) IN
       IF e.threw
       THEN /\ response' = ErrorResponse(handler, e.error)
            /\ aiResponse' = aiResponse
            /\ pc' = "done"
       ELSE /\ response' = response
            /\ aiResponse' = e.v
            /\ pc' = "extracted"
  /\ UNCHANGED <<handler, apiKeys, selectedModels, apiUrl, apiKey, model,
                 headers, requestBody, upstream>>
  /\ UNCHANGED <<callerVars, promptVars, inv, todoVars, devVars, pageVars>>

\* return new Response(JSON.stringify(parsedResponse), ...), or the outer
\* catch where normalize threw
ResponseOf(h, n) ==
  IF n.threw THEN ErrorResponse(h, n.error) ELSE OkResponse(n.v)

\* The parse of aiResponse, its fallbacks and the response of the handler.
Normalize ==
  /\ pc = "extracted"
  /\ response' = ResponseOf(handler, NormalizeOf(handler, aiResponse))
  /\ pc' = "done"
  /\ UNCHANGED <<handler, apiKeys, selectedModels, apiUrl, apiKey, model,
                 headers, requestBody, upstream, aiResponse>>
  /\ UNCHANGED <<callerVars, promptVars, inv, todoVars, devVars, pageVars>>

Fresh ==
  /\ pc = "start"
  /\ apiUrl = ""
  /\ apiKey = ""
  /\ model = ""
  /\ headers = BaseHeaders
  /\ requestBody = Undefined
  /\ upstream = NoReply
  /\ aiResponse = Undefined
  /\ response = NoResponse

\* No caller is at work.
NoCaller ==
  /\ caller = "none"
  /\ chatPc = "idle"
  /\ isLoading = FALSE
  /\ invocations = 0
  /\ waited = 0
  /\ replyData = Undefined
  /\ replyError = Undefined
  /\ messages = <<>>
  /\ toasts = <<>>
  /\ codeUpdates = <<>>
  /\ plan = Undefined
  /\ sends = 0

\* No prompt is being written.
NoPrompt ==
  /\ site = "none"
  /\ fileName = ""
  /\ fileContent = ""
  /\ section = ""

\* No to-do list is shown.
NoTodo ==
  /\ tasks = <<>>
  /\ processingTask = "null"
  /\ runs = <<>>
  /\ calls = 0
  /\ called = ""
  /\ issued = 0
  /\ taskUpdates = {}

\* No dev server is shown.
NoDev ==
  /\ logs = <<>>
  /\ logged = 0
  /\ startPc = 0
  /\ isRunning = FALSE
  /\ isAnalyzing = FALSE
  /\ intervalSees = FALSE
  /\ timers = 0
  /\ analyses = 0
  /\ fixing = 0
  /\ devCalls = 0
  /\ triggers = 0

\* The CreateProject page is not open.
NoPage ==
  /\ page = "none"
  /\ createPc = "idle"
  /\ isCreating = FALSE
  /\ user = FALSE
  /\ savedKeys = "null"
  /\ inserted = 0
  /\ showPlanReview = FALSE
  /\ location = ""
  /\ pageToasts = <<>>

Elsewhere == NoTodo /\ NoDev /\ NoPage

\* The gateway alone, called once.
Alone == NoCaller /\ NoPrompt /\ inv = <<>> /\ Elsewhere

\* Requests used to exercise route and buildRequestBody: every credential
\* set with no override or every override, and every override set with
\* plain keys.
RouteInputs ==
  (KeySets \X {NoOverrides, AllOverridden}) \cup (PlainKeySets \X ModelSets)

InitRoute ==
  /\ handler \in Handlers
  /\ \E in \in RouteInputs : apiKeys = in[1] /\ selectedModels = in[2]
  /\ Fresh
  /\ Alone

NextRoute == Route \/ BuildRequestBody

SpecRoute == InitRoute /\ [][NextRoute]_vars

(***************************************************************************)
(* Vocabulary of the claims about route and buildRequestBody.              *)
(***************************************************************************)
PrefOrder == <<"openrouter", "openai", "deepseek", "gemini", "anthropic">>

Rank(p) == CHOOSE i \in 1..Len(PrefOrder) : PrefOrder[i] = p

\* The credential of p is present and non-empty after trimming.
NonBlank(keys, p) == p \in DOMAIN keys /\ Trim(keys[p]) # ""

HostOf(p) ==
  CASE p = "openrouter" -> "//openrouter.ai/"
    [] p = "openai"     -> "//api.openai.com/"
    [] p = "deepseek"   -> "//api.deepseek.com/"
    [] p = "gemini"     -> "//generativelanguage.googleapis.com/"
    [] p = "anthropic"  -> "//api.anthropic.com/"

\* The providers whose host the request is addressed to.
Chosen == {p \in Providers : Includes(apiUrl, HostOf(p))}

\* The invocation ended in route, before any endpoint was assigned.
RouteFailed == pc = "done" /\ apiUrl = ""

\* What the caller reads from a response: its body parsed as JSON.
DataOf(r) == JSONParse(r.body).v

Has(v, k) == IsObj(v) /\ k \in DOMAIN v.f

ErrorOf(r) ==
  LET d == DataOf(r) IN
    IF Has(d, "error") /\ IsStr(d.f["error"]) THEN d.f["error"].s ELSE ""

NoCredentials == RouteFailed /\ ErrorOf(response) \in {NoKeyConfigured, NoValidKey}

ProviderUnavailable == RouteFailed /\ ErrorOf(response) = GeminiComingSoon

\* Route chose a provider whose own credential is non-blank and uses it.
ChoseNonBlank ==
  \E p \in Chosen : NonBlank(apiKeys, p) /\ apiKey = apiKeys[p]

\* gemini is the first non-blank entry of the preference order.
GeminiFirst ==
  /\ NonBlank(apiKeys, "gemini")
  /\ \A q \in {"openrouter", "openai", "deepseek"} : ~NonBlank(apiKeys, q)

\* C1 as stated: with at least one non-blank credential route selects a
\* provider whose own credential is non-blank; with none it fails with
\* NoCredentials and selects no provider.
C1_AsStated ==
  pc # "start" =>
    IF \E p \in Providers : NonBlank(apiKeys, p)
    THEN ChoseNonBlank
    ELSE Chosen = {} /\ NoCredentials

\* C1 amended: as C1, except that the project generator, given a credential
\* set whose first non-blank entry in the preference order is gemini, fails
\* with ProviderUnavailable and selects no provider.
C1_RouteSelectsNonBlank ==
  pc # "start" =>
    IF ~(\E p \in Providers : NonBlank(apiKeys, p))
    THEN Chosen = {} /\ NoCredentials
    ELSE IF handler = ProjectGenerator /\ GeminiFirst
    THEN Chosen = {} /\ ProviderUnavailable
    ELSE ChoseNonBlank

C1_Witness ==
  /\ pc = "routed"
  /\ "openrouter" \in DOMAIN apiKeys /\ apiKeys["openrouter"] = " "
  /\ "openai" \in DOMAIN apiKeys /\ apiKeys["openai"] = ""
  /\ Chosen = {"anthropic"}
  /\ apiKey = " sk-1 "

\* The auth headers of provider p carrying credential key, as the provider
\* requires them.
HeadersAreOf(p, key) ==
  /\ ("Authorization" \in DOMAIN headers) = (p # "gemini")
  /\ p # "gemini" => headers["Authorization"] = "Bearer " \o key
  /\ ("anthropic-version" \in DOMAIN headers) = (p = "anthropic")
  /\ ("HTTP-Referer" \in DOMAIN headers) = (p = "openrouter")
  /\ ("X-Title" \in DOMAIN headers) = (p = "openrouter")
  /\ p = "gemini" => Includes(apiUrl, "?key=" \o key)

\* C2: a request that passes route has exactly one provider, the first
\* configured one in the order openrouter > openai > deepseek > gemini >
\* anthropic, and the URL and headers are those of that provider only; a
\* request that fails in route has none.
C2_FirstConfiguredInOrder ==
  pc # "start" =>
    /\ Cardinality(Chosen) = (IF RouteFailed THEN 0 ELSE 1)
    /\ \A p \in Chosen :
         /\ NonBlank(apiKeys, p)
         /\ \A q \in Providers : Rank(q) < Rank(p) => ~NonBlank(apiKeys, q)
         /\ apiKey = apiKeys[p]
         /\ HeadersAreOf(p, apiKeys[p])

C2_Witness ==
  /\ pc = "routed"
  /\ handler = CodeAssistant
  /\ Chosen = {"deepseek"}
  /\ NonBlank(apiKeys, "gemini") /\ NonBlank(apiKeys, "anthropic")
  /\ "openrouter" \in DOMAIN apiKeys /\ "openai" \in DOMAIN apiKeys

\* C3: the model sent upstream is the caller's selectedModels override of
\* the selected provider when one is supplied, and the provider's default
\* otherwise, for each provider and handler.
C3_OverrideHonoured ==
  pc = "routed" =>
    \A p \in Chosen :
      model = IF p \in DOMAIN selectedModels /\ selectedModels[p] # ""
              THEN selectedModels[p]
              ELSE DefaultModel(handler, p)

GeminiEnvelope(b) ==
  /\ Has(b, "contents") /\ Has(b, "generationConfig")
  /\ Has(b.f["generationConfig"], "maxOutputTokens")
  /\ ~Has(b, "messages") /\ ~Has(b, "max_tokens")

AnthropicEnvelope(b) ==
  /\ Has(b, "messages") /\ Has(b, "max_tokens") /\ Has(b, "model")
  /\ ~Has(b, "response_format") /\ ~Has(b, "contents")

OpenAIEnvelope(b) ==
  /\ Has(b, "messages") /\ Has(b, "max_tokens") /\ Has(b, "model")
  /\ Has(b, "response_format")
  /\ b.f["response_format"] = Obj("type" :> Str("json_object"))
  /\ ~Has(b, "contents")

\* C10: the request body is the envelope of the selected provider, whatever
\* the text of the credentials.
C10_EnvelopeOfSelectedProvider ==
  pc = "built" =>
    \A p \in Chosen :
      CASE p = "gemini"    -> GeminiEnvelope(requestBody)
        [] p = "anthropic" -> AnthropicEnvelope(requestBody)
        [] OTHER           -> OpenAIEnvelope(requestBody)

Init ==
  /\ handler \in Handlers
  /\ apiKeys \in SingleKeySets
  /\ selectedModels = NoOverrides
  /\ Fresh
  /\ Alone

Next == Route \/ BuildRequestBody \/ Send \/ ExtractText \/ Normalize

Spec == Init /\ [][Next]_vars


(***************************************************************************)
(* Vocabulary of the claims about normalize.                               *)
(***************************************************************************)
\* normalize has acted: extractText obtained a non-empty text and the
\* invocation has ended.
Ended == pc = "done" /\ aiResponse # Undefined

AssistantEnded == Ended /\ handler # ProjectGenerator

\* The file entries of a result.
Entries(d) ==
  IF Has(d, "files") /\ IsObj(d.f["files"]) THEN DOMAIN d.f["files"].f ELSE {}

NonBlankStr(v) == IsStr(v) /\ Trim(v.s) # ""

HasMessage(d) ==
  \E k \in {"response", "analysis"} : Has(d, k) /\ IsStr(d.f[k])

IsFileEdits(d) == Entries(d) # {}

IsMessage(d) == IsObj(d) /\ Entries(d) = {} /\ HasMessage(d)

IsResult(d) == IsFileEdits(d) \/ IsMessage(d)

\* C4: for every reply from which extractText obtained a non-empty text the
\* invocation ends with status 200 and a FileEdits or Message result; no
\* parse-stage problem surfaces as an error response.
C4_NormalizeNeverRaises ==
  Ended => response.status = 200 /\ IsResult(DataOf(response))

EntriesNonBlank(d) ==
  /\ \A k \in Entries(d) : NonBlankStr(d.f["files"].f[k])
  /\ (Has(d, "files") /\ Entries(d) = {}) => HasMessage(d)

\* C5: every entry of the files mapping a code-assistant handler returns is
\* a non-blank string, and a result whose files mapping has no entry is a
\* Message.
C5_EntriesNonBlank ==
  (AssistantEnded /\ response.status = 200) => EntriesNonBlank(DataOf(response))

\* The text parses to an object whose files mapping has no non-blank entry.
NoSurvivor(p) ==
  /\ p.ok
  /\ Has(p.v, "files") /\ IsObj(p.v.f["files"])
  /\ \A k \in Entries(p.v) : ~NonBlankStr(p.v.f["files"].f[k])

NoSurvivorIsMessage(p, r) ==
  NoSurvivor(p) => r.status = 200 /\ IsMessage(DataOf(r))

\* C6: when the parsed object has a files mapping of which no entry is a
\* non-blank string, a code-assistant handler returns a Message and no file
\* entry.
C6_NoSurvivorIsMessage ==
  AssistantEnded => NoSurvivorIsMessage(JSONParse(ToStringJS(aiResponse)), response)

\* The text parses to an object without a files field whose codeChanges is
\* an array of objects.
LegacyShape(p) ==
  /\ p.ok /\ IsObj(p.v)
  /\ ~Has(p.v, "files")
  /\ Has(p.v, "codeChanges") /\ IsArr(p.v.f["codeChanges"])
  /\ \A i \in 1..Len(p.v.f["codeChanges"].a) : IsObj(p.v.f["codeChanges"].a[i])

HasBoth(c) == Has(c, "file") /\ Has(c, "content")

NonEmptyBoth(c) == HasBoth(c) /\ Truthy(c.f["file"]) /\ Truthy(c.f["content"])

\* The mapping from the file of every pair of a whose index is in kept to
\* the content of the last such pair of that file.
LastWins(a, kept) ==
  [name \in {a[i].f["file"].s : i \in kept} |->
     a[CHOOSE i \in kept :
         /\ a[i].f["file"].s = name
         /\ \A j \in kept : a[j].f["file"].s = name => j <= i].f["content"]]

FilesAre(r, files) ==
  /\ r.status = 200
  /\ Has(DataOf(r), "files")
  /\ DataOf(r).f["files"] = Obj(files)

TranslatesAll(p, r) ==
  LegacyShape(p) =>
    FilesAre(r, LastWins(p.v.f["codeChanges"].a,
                         {i \in 1..Len(p.v.f["codeChanges"].a) :
                            HasBoth(p.v.f["codeChanges"].a[i])}))

TranslatesNonEmpty(p, r) ==
  LegacyShape(p) =>
    FilesAre(r, LastWins(p.v.f["codeChanges"].a,
                         {i \in 1..Len(p.v.f["codeChanges"].a) :
                            NonEmptyBoth(p.v.f["codeChanges"].a[i])}))

NormalizingEnded == Ended /\ handler = CodeAssistantV2

NotJson(ai) == IsStr(ai) /\ ~JSONParse(ai.s).ok

BlocksBecomeFiles(bodies, r) ==
  Len(bodies) >= 1 =>
    /\ r.status = 200
    /\ Entries(DataOf(r)) = {GeneratedName(n) : n \in 1..Len(bodies)}
    /\ \A n \in 1..Len(bodies) :
         DataOf(r).f["files"].f[GeneratedName(n)] = Str(bodies[n])

\* C8: when the text is not valid JSON and holds k >= 1 fenced code blocks,
\* a code-assistant handler returns exactly k file entries, the body of the
\* n-th block being the content of generated-file-n.tsx.
C8_BlocksBecomeFiles ==
  (AssistantEnded /\ NotJson(aiResponse)) =>
    BlocksBecomeFiles(MatchAll(aiResponse.s, 1), response)

\* The raw text, cut to the display limit and marked where it was cut.
Displayed(text) ==
  IF Len(text) <= DisplayLimit THEN text
  ELSE Substring(text, 0, DisplayLimit) \o "..."

RawTextIsMessage(text, r) ==
  MatchAll(text, 1) = <<>> =>
    /\ r.status = 200
    /\ IsMessage(DataOf(r))
    /\ Has(DataOf(r), "response")
    /\ DataOf(r).f["response"] = Str(Displayed(text))

\* C9: when the text is not valid JSON and holds no fenced code block, a
\* code-assistant handler returns a Message without file entries whose
\* content is the raw text, or its first 500 characters followed by "...".
C9_RawTextIsMessage ==
  (AssistantEnded /\ NotJson(aiResponse)) => RawTextIsMessage(aiResponse.s, response)

(***************************************************************************)
(* Vocabulary of the claims about send, extractText and failures.          *)
(***************************************************************************)
\* The value found by walking path, a sequence of property names and of
\* "[0]" for the first element, down from v; Undefined where the walk
\* leaves the value.
RECURSIVE Dig(_, _)
Dig(v, path) ==
  IF path = <<>> THEN v
  ELSE IF Head(path) = "[0]"
  THEN Dig(IF IsArr(v) /\ Len(v.a) > 0 THEN v.a[1] ELSE Undefined, Tail(path))
  ELSE Dig(IF Has(v, Head(path)) THEN v.f[Head(path)] ELSE Undefined, Tail(path))

\* The unwrap path of provider p.
PathOf(p) ==
  CASE p = "anthropic" -> <<"content", "[0]", "text">>
    [] p = "gemini"    -> <<"candidates", "[0]", "content", "parts", "[0]", "text">>
    [] OTHER           -> <<"choices", "[0]", "message", "content">>

EmptyUpstreamResponse(r) == ErrorOf(r) = NoResponseFromAI

ReadsPath(t, ai, r) ==
  IF Nullish(t) \/ t = Str("")
  THEN ai = Undefined /\ EmptyUpstreamResponse(r)
  ELSE ai = t

\* The upstream reply was a 2xx and the invocation has ended.
RepliedOk == pc = "done" /\ upstream.ok

\* C11: after a 2xx reply the text handed to normalize is the value at the
\* selected provider's own path, and when that value is absent or empty the
\* invocation fails with EmptyUpstreamResponse and hands nothing over.
C11_ExtractByProviderPath ==
  RepliedOk =>
    \A p \in Chosen : ReadsPath(Dig(upstream.data, PathOf(p)), aiResponse, response)

\* The upstream reply was not a 2xx.
UpstreamFailed == pc = "done" /\ upstream.status # 0 /\ ~upstream.ok

CarriesStatus(msg, u) ==
  /\ Includes(msg, IntToStr(u.status))
  /\ Includes(msg, u.statusText)

\* C12: after a non-2xx reply the invocation fails with an error that
\* carries both the status and the statusText of the reply, in every
\* handler.
C12_UpstreamErrorCarriesStatus ==
  UpstreamFailed =>
    response.status = 500 /\ CarriesStatus(ErrorOf(response), upstream)

\* route, send or extractText failed: nothing was handed to normalize.
HardFailure == pc = "done" /\ aiResponse = Undefined

EmptyCollections(d) ==
  /\ Has(d, "files") \/ Has(d, "codeChanges")
  /\ Has(d, "files") => d.f["files"] = EmptyObj
  /\ Has(d, "codeChanges") => d.f["codeChanges"] = Arr(<<>>)

ErrorObject(d) ==
  /\ Has(d, "error") /\ IsStr(d.f["error"])
  /\ Has(d, "response") /\ IsStr(d.f["response"])
  /\ EmptyCollections(d)

\* C13: every hard failure is returned as a JSON object with a string
\* error, a string response and empty files/codeChanges collections.
C13_FailureIsErrorObject ==
  HardFailure => ErrorObject(DataOf(response))

(***************************************************************************)
(* The project generator with any combination of plain credentials.        *)
(***************************************************************************)
InitGenerator ==
  /\ handler = ProjectGenerator
  /\ apiKeys \in PlainKeySets
  /\ selectedModels = NoOverrides
  /\ Fresh
  /\ Alone

SpecGenerator == InitGenerator /\ [][Next]_vars

\* C15: in the project generator, when gemini is the first configured
\* provider the invocation ends in route with ProviderUnavailable, selects
\* no provider, builds no request and makes no upstream call, whether or not
\* an anthropic credential is configured.
C15_GeminiFailsFast ==
  (handler = ProjectGenerator /\ pc # "start" /\ GeminiFirst) =>
    /\ pc = "done"
    /\ ProviderUnavailable
    /\ Chosen = {}
    /\ requestBody = Undefined
    /\ upstream = NoReply

C15_Witness ==
  /\ handler = ProjectGenerator
  /\ pc = "done"
  /\ GeminiFirst /\ NonBlank(apiKeys, "anthropic")
  /\ ProviderUnavailable
  /\ upstream = NoReply

(***************************************************************************)
(* The shape of one invocation.                                            *)
(***************************************************************************)
\* The stage changes an invocation may make: one stage forward, or to the
\* end from a stage that can fail.
StageMoves ==
  {<<"start", "routed">>, <<"start", "done">>, <<"routed", "built">>,
   <<"built", "sent">>, <<"built", "done">>, <<"sent", "extracted">>,
   <<"sent", "done">>, <<"extracted", "done">>}

LinearStep ==
  /\ pc' # pc => <<pc, pc'>> \in StageMoves
  /\ upstream' # upstream => pc = "built" /\ upstream = NoReply
  /\ aiResponse' # aiResponse => pc = "sent" /\ pc' = "extracted"
  /\ response' # response => pc # "done" /\ pc' = "done" /\ response = NoResponse

EndsOnce ==
  /\ RouteFailed => requestBody = Undefined /\ upstream = NoReply
  /\ (pc = "done" /\ ~upstream.ok) => aiResponse = Undefined
  /\ pc = "done" =>
       /\ response # NoResponse
       /\ response.status = 200 => upstream.ok /\ aiResponse # Undefined
       /\ response.status # 200 => ErrorOf(response) # ""
  /\ pc # "done" => response = NoResponse

\* C18: an invocation moves through route, buildRequestBody, send,
\* extractText and normalize in that order, issues at most one upstream POST
\* and none when route fails, runs no stage after a failed one, and ends
\* with exactly one response: a result with status 200 or an error.
C18_LinearPipeline == []EndsOnce /\ [][LinearStep]_vars

C18_Witness ==
  /\ pc = "done"
  /\ upstream.status = 429
  /\ aiResponse = Undefined
  /\ response.status = 500

\* The output contract of the code-assistant gateway.
WellFormed(d) ==
  /\ IsObj(d)
  /\ \/ Has(d, "files") /\ IsObj(d.f["files"])
     \/ \E k \in {"response", "analysis", "summary"} : Has(d, k) /\ IsStr(d.f[k])

\* C19: every response with status 200 of a code-assistant handler is a
\* JSON object with a files mapping or a string response, analysis or
\* summary, whatever text the model returned.
C19_OutputContract ==
  (AssistantEnded /\ response.status = 200) => WellFormed(DataOf(response))

(***************************************************************************)
(* Project files in prompts: the callback that writes one file into the    *)
(* project section of a prompt.                                            *)
(***************************************************************************)
ChatPrompt == "AIChat.sendMessage"
AssistantPrompt == "ai-code-assistant-v2"
TaskPrompt == "executeTask"
AutoFixPrompt == "analyzeAndAutoFix"

Sites == {ChatPrompt, AssistantPrompt, TaskPrompt, AutoFixPrompt}

\* content.substring(0, Budget)
Budget(st) ==
  CASE st = ChatPrompt      -> 500
    [] st = AutoFixPrompt   -> 1000
    [] st = AssistantPrompt -> 2000
    [] st = TaskPrompt      -> 3000

\* What follows a cut content.
Marker(st) ==
  CASE st = ChatPrompt      -> "...\n[TRUNCATED - Full content available for analysis]"
    [] st = AutoFixPrompt   -> "..."
    [] st = AssistantPrompt -> "\n[TRUNCATED - Full content available]"
    [] st = TaskPrompt      -> "\n[CONTENT TRUNCATED]"

\* task.affectedFiles of the task that executeTask runs
AffectedFiles == {"a.txt"}

\* The line that opens the entry of a file.
Header(st, file, content) ==
  CASE st = ChatPrompt ->
         "=== " \o file \o " (" \o IntToStr(Len(content)) \o " chars) ===\n"
    [] st = TaskPrompt ->
         "=== " \o file \o " "
           \o (IF file \in AffectedFiles THEN "(MODIFY THIS)" ELSE "(REFERENCE)")
           \o " ===\n"
    [] OTHER -> "=== " \o file \o " ===\n"

\* Mutant of EmbedFile: the content is cut and nothing is appended.
EmbedFileSilent(st, file, content) ==
  Header(st, file, content) \o Substring(content, 0, Budget(st)) \o "\n"

\* ([file, content]) => the entry of the file in the prompt
EmbedFile(st, file, content) ==
  Header(st, file, content)
    \o Substring(content, 0, Budget(st))
    \o (IF Len(content) > Budget(st) THEN Marker(st) ELSE "")
    \o "\n"

Digits10 == "0123456789"

\* A text of n characters.
TextOf(n) == Repeat(Digits10, n \div 10) \o Slice(Digits10, 1, n % 10)

\* Lengths below, at and above every budget.
ContentLengths ==
  {0, 1, 7, 3040}
    \cup UNION {{Budget(st) - 1, Budget(st), Budget(st) + 1} : st \in Sites}

Embed ==
  /\ site \in Sites
  /\ section = ""
  /\ section' = EmbedFile(site, fileName, fileContent)
  /\ UNCHANGED <<site, fileName, fileContent>>
  /\ UNCHANGED <<gatewayVars, callerVars, inv, todoVars, devVars, pageVars>>

\* No gateway invocation is under way.
NoInvocation ==
  /\ handler = "none"
  /\ apiKeys = <<>>
  /\ selectedModels = NoOverrides
  /\ pc = "idle"
  /\ apiUrl = ""
  /\ apiKey = ""
  /\ model = ""
  /\ headers = BaseHeaders
  /\ requestBody = Undefined
  /\ upstream = NoReply
  /\ aiResponse = Undefined
  /\ response = NoResponse

InitPrompt ==
  /\ site \in Sites
  /\ fileName \in FileNames
  /\ fileContent \in {TextOf(n) : n \in ContentLengths}
  /\ section = ""
  /\ NoInvocation /\ NoCaller /\ inv = <<>> /\ Elsewhere

NextPrompt == Embed

SpecPrompt == InitPrompt /\ [][NextPrompt]_vars

\* The part of an entry between its header and its closing newline.
BodyOf(text, head) == Slice(text, Len(head) + 1, Len(text) - 1)

WholeOrMarked(body, content, B) ==
  IF Len(content) <= B THEN body = content
  ELSE /\ Slice(body, 1, B) = Slice(content, 1, B)
       /\ Slice(body, B + 1, Len(body)) \in {Marker(st) : st \in Sites}
       /\ Len(body) > B

Embedded == site \in Sites /\ section # ""

\* C17: a file content of at most the budget of its prompt is embedded
\* whole, and a longer one as exactly its first budget characters followed
\* by a non-empty truncation marker.
C17_TruncationMarked ==
  Embedded =>
    WholeOrMarked(BodyOf(section, Header(site, fileName, fileContent)),
                  fileContent, Budget(site))

C17_Witness ==
  /\ Embedded
  /\ site = AssistantPrompt
  /\ Len(fileContent) = Budget(AssistantPrompt) + 1
  /\ Len(section) > Len(fileContent) + Len(Header(site, fileName, fileContent))

(***************************************************************************)
(* The callers of the gateway in the builder: AIChat.sendMessage and the   *)
(* generatePlan of the project creation wizard.  apiKeys stands for the    *)
(* keys kept in localStorage, which the caller sends with its request.     *)
(***************************************************************************)
Chat == "AIChat"
PlanReview == "generatePlan"

\* The content of the message shown when no key is stored (the warning sign
\* that opens it and the arrow in it are written in ASCII).
ConfigureKeysContent ==
  "Please configure your API keys in Settings to enable the AI agent. Go to Settings -> API Configuration to add your OpenAI, OpenRouter, DeepSeek, or Anthropic API key."

ErrorContent ==
  "I apologize, but I encountered an error processing your request. Please check your API keys in settings and try again. If the issue persists, try breaking down your request into smaller steps."

KeysRequiredToast == "API Keys Required"
AgentErrorToast == "AI Agent Error"
CodeModifiedToast == "AI Agent: Code Modified"
CodeUpdatedToast == "Code Updated"
PlanGenerationToast == "Plan Generation"

BackoffMs == 1000

TickMs == 500

\* Object.values(apiKeys).some(key => key && key.trim() !== "")
HasValidKey(keys) ==
  \E p \in DOMAIN keys : TruthyStr(keys[p]) /\ Trim(keys[p]) # ""

\* supabase.functions.invoke: the body of a 2xx response as data, an error
\* for any other status.
Invoked(r) ==
  IF r.status >= 200 /\ r.status <= 299
  THEN [data |-> DataOf(r), error |-> Null]
  ELSE [data |-> Null, error |-> Str("FunctionsHttpError")]

\* a || b
Or(a, b) == IF Truthy(a) THEN a ELSE b

AiMessage(content) == [type |-> "ai", content |-> content]

UserMessage(content) == [type |-> "user", content |-> content]

\* Object.entries(v)
RECURSIVE IndexEntries(_, _)
IndexEntries(a, i) ==
  IF i > Len(a) THEN <<>>
  ELSE <<[file |-> Str(IntToStr(i - 1)), content |-> a[i]]>> \o IndexEntries(a, i + 1)

RECURSIVE NamedEntries(_, _, _)
NamedEntries(f, names, i) ==
  IF i > Len(names) THEN <<>>
  ELSE <<[file |-> Str(names[i]), content |-> f[names[i]]]>>
         \o NamedEntries(f, names, i + 1)

EntriesOf(v) ==
  IF IsObj(v) THEN NamedEntries(v.f, NamesOf(DOMAIN v.f), 1)
  ELSE IF IsArr(v) THEN IndexEntries(v.a, 1)
  ELSE IF IsStr(v) THEN IndexEntries([i \in 1..Len(v.s) |-> Str(CharAt(v.s, i))], 1)
  ELSE <<>>

\* for (...) { const change = data.codeChanges[i]; onCodeUpdate(change.file,
\* change.content) }: the calls made, and whether an element that is null
\* stopped the loop.
RECURSIVE ApplyChanges(_, _, _)
ApplyChanges(a, i, done) ==
  IF i > Len(a) THEN [threw |-> FALSE, updates |-> done]
  ELSE IF Nullish(a[i]) THEN [threw |-> TRUE, updates |-> done]
  ELSE ApplyChanges(a, i + 1,
         Append(done, [file |-> Prop(a[i], "file"), content |-> Prop(a[i], "content")]))

Handled(threw, msgs, updates, shown) ==
  [threw |-> threw, messages |-> msgs, updates |-> updates, toasts |-> shown]

SummaryContent(ai) ==
  Str("**Implementation Complete**\n\n" \o ToStringJS(Prop(ai, "summary")) \o "\n\n"
      \o (IF Truthy(Prop(ai, "verification"))
          THEN "**Verification**: " \o ToStringJS(Prop(ai, "verification"))
          ELSE ""))

\* data.codeChanges && data.codeChanges.length > 0
HasChanges(d) ==
  \/ IsArr(Prop(d, "codeChanges")) /\ Len(Prop(d, "codeChanges").a) > 0
  \/ IsStr(Prop(d, "codeChanges")) /\ Len(Prop(d, "codeChanges").s) > 0

AfterChanges(msgs, r) ==
  Handled(r.threw, msgs, r.updates, IF r.threw THEN <<>> ELSE <<CodeUpdatedToast>>)

ChangeItems(cc) ==
  IF IsArr(cc) THEN cc.a ELSE [i \in 1..Len(cc.s) |-> Str(CharAt(cc.s, i))]

\* The reply once aiResponse is known: the chat message, then the file
\* updates of aiResponse.files or, failing that, of data.codeChanges.
HandleParsed(d, ai) ==
  IF Nullish(ai) THEN Handled(TRUE, <<>>, <<>>, <<>>)
  ELSE IF Truthy(Prop(ai, "files")) /\ EntriesOf(Prop(ai, "files")) # <<>>
  THEN Handled(FALSE,
               <<AiMessage(Or(Or(Or(Prop(ai, "analysis"), Prop(ai, "summary")),
                                 Prop(d, "response")),
                              Str("I've analyzed your request and implemented the necessary changes.")))>>
                 \o (IF Truthy(Prop(ai, "summary"))
                     THEN <<AiMessage(SummaryContent(ai))>> ELSE <<>>),
               EntriesOf(Prop(ai, "files")),
               <<CodeModifiedToast>>)
  ELSE IF HasChanges(d)
  THEN AfterChanges(
         <<AiMessage(Or(Or(Or(Prop(ai, "analysis"), Prop(ai, "summary")),
                           Prop(d, "response")),
                        Str("I've analyzed your request and implemented the necessary changes.")))>>,
         ApplyChanges(ChangeItems(Prop(d, "codeChanges")), 1, <<>>))
  ELSE Handled(FALSE,
               <<AiMessage(Or(Or(Or(Prop(ai, "analysis"), Prop(ai, "summary")),
                                 Prop(d, "response")),
                              Str("I've analyzed your request and implemented the necessary changes.")))>>,
               <<>>, <<>>)

\* try { aiResponse = JSON.parse(...) } catch { aiResponse = { analysis: ... } }
AiResponseOf(r, d) ==
  IF r.ok THEN r.v
  ELSE Obj("analysis" :> Or(Or(Prop(d, "response"), Prop(d, "content")),
                            Str("I've processed your request.")))

\* What sendMessage does with the data of a reply.
HandleReply(d) ==
  IF Nullish(d) THEN Handled(TRUE, <<>>, <<>>, <<>>)
  ELSE HandleParsed(d,
         AiResponseOf(
           JSONParse(ToStringJS(Or(Or(Prop(d, "response"), Prop(d, "content")), Str("{}")))),
           d))

FallbackPlan == [kind |-> "fallback"]

PlanParsed(r) == IF r.ok THEN [kind |-> "parsed", of |-> r.v] ELSE FallbackPlan

\* The plan generatePlan draws from the data of a reply; threw where
\* reading the data raises.
PlanOf(d) ==
  IF Nullish(d) THEN [threw |-> TRUE, plan |-> FallbackPlan]
  ELSE IF IsStr(d) THEN [threw |-> FALSE, plan |-> PlanParsed(JSONParse(d.s))]
  ELSE IF Truthy(Prop(d, "files"))
  THEN [threw |-> FALSE, plan |-> [kind |-> "fromGeneration", of |-> d]]
  ELSE [threw |-> FALSE, plan |-> [kind |-> "data", of |-> d]]

\* The invocation has returned: its locals are gone.
Returned ==
  /\ pc' = "idle"
  /\ apiUrl' = ""
  /\ apiKey' = ""
  /\ model' = ""
  /\ headers' = BaseHeaders
  /\ requestBody' = Undefined
  /\ upstream' = NoReply
  /\ aiResponse' = Undefined
  /\ response' = NoResponse
  /\ UNCHANGED <<handler, apiKeys, selectedModels>>

\* The caller posts its request to the gateway.
Invoke ==
  /\ pc' = "start"
  /\ UNCHANGED <<handler, apiKeys, selectedModels, apiUrl, apiKey, model,
                 headers, requestBody, upstream, aiResponse, response>>

\* sendMessage past its guard, up to its first await: the check of the
\* stored keys, the user message and the first invocation.
Accepted ==
  /\ IF ~HasValidKey(apiKeys)
     THEN /\ messages' = Append(messages, AiMessage(Str(ConfigureKeysContent)))
          /\ toasts' = Append(toasts, KeysRequiredToast)
          /\ chatPc' = "finished"
          /\ UNCHANGED <<isLoading, invocations, gatewayVars>>
     ELSE /\ messages' = Append(messages, UserMessage(Str("hi")))
          /\ isLoading' = TRUE
          /\ invocations' = 1
          /\ chatPc' = "invoking"
          /\ toasts' = toasts
          /\ Invoke
  /\ UNCHANGED <<caller, waited, replyData, replyError, codeUpdates, plan>>

\* Calls of sendMessage in one behaviour, one of them accepted.
MaxSends == 3

\* Mutant of SendMessage: the call does not look at isLoading.
SendMessageUnguarded ==
  /\ caller = Chat
  /\ chatPc \in {"idle", "invoking", "backoff"}
  /\ sends < MaxSends
  /\ sends' = sends + 1
  /\ Accepted
  /\ UNCHANGED <<promptVars, inv, todoVars, devVars, pageVars>>

\* sendMessage: if (!inputMessage.trim() || isLoading) return; then the
\* accepted message.
SendMessage ==
  /\ caller = Chat
  /\ chatPc \in {"idle", "invoking", "backoff"}
  /\ sends < MaxSends
  /\ sends' = sends + 1
  /\ IF isLoading
     THEN UNCHANGED <<caller, chatPc, isLoading, invocations, waited, replyData,
                      replyError, messages, toasts, codeUpdates, plan, gatewayVars>>
     ELSE Accepted
  /\ UNCHANGED <<promptVars, inv, todoVars, devVars, pageVars>>

\* catch (error) { ... } finally { ... } of sendMessage
Caught(msgs, shown) ==
  /\ messages' = Append(msgs, AiMessage(Str(ErrorContent)))
  /\ toasts' = Append(shown, AgentErrorToast)

Applied(h) ==
  /\ codeUpdates' = codeUpdates \o h.updates
  /\ IF h.threw
     THEN Caught(messages \o h.messages, toasts \o h.toasts)
     ELSE /\ messages' = messages \o h.messages
          /\ toasts' = toasts \o h.toasts

Received(r) ==
  /\ replyData' = r.data
  /\ replyError' = r.error
  /\ IF Truthy(r.error) /\ invocations = 1
     THEN /\ chatPc' = "backoff"
          /\ waited' = 0
          /\ UNCHANGED <<isLoading, messages, toasts, codeUpdates>>
     ELSE /\ chatPc' = "finished"
          /\ isLoading' = FALSE
          /\ waited' = waited
          /\ IF Truthy(r.error)
             THEN Caught(messages, toasts) /\ codeUpdates' = codeUpdates
             ELSE Applied(HandleReply(r.data))

\* sendMessage from the return of an invocation on: the wait before the
\* retry after a first error, or the handling of the outcome.
Receive ==
  /\ caller = Chat
  /\ chatPc = "invoking"
  /\ pc = "done"
  /\ Received(Invoked(response))
  /\ Returned
  /\ UNCHANGED <<caller, sends, invocations, plan>>
  /\ UNCHANGED <<promptVars, inv, todoVars, devVars, pageVars>>

\* Time passes while setTimeout(r, 1000) is pending.
Wait ==
  /\ chatPc = "backoff"
  /\ waited < BackoffMs
  /\ waited' = waited + TickMs
  /\ UNCHANGED <<caller, sends, chatPc, isLoading, invocations, replyData, replyError,
                 messages, toasts, codeUpdates, plan>>
  /\ UNCHANGED <<gatewayVars, promptVars, inv, todoVars, devVars, pageVars>>

\* Mutant of Retry: the second invocation does not wait for the timer.
RetryAtOnce ==
  /\ chatPc = "backoff"
  /\ invocations' = invocations + 1
  /\ chatPc' = "invoking"
  /\ Invoke
  /\ UNCHANGED <<caller, sends, isLoading, waited, replyData, replyError, messages,
                 toasts, codeUpdates, plan>>
  /\ UNCHANGED <<promptVars, inv, todoVars, devVars, pageVars>>

\* The timer has fired: ({ data, error } = await invoke())
Retry ==
  /\ chatPc = "backoff"
  /\ waited >= BackoffMs
  /\ invocations' = invocations + 1
  /\ chatPc' = "invoking"
  /\ Invoke
  /\ UNCHANGED <<caller, sends, isLoading, waited, replyData, replyError, messages,
                 toasts, codeUpdates, plan>>
  /\ UNCHANGED <<promptVars, inv, todoVars, devVars, pageVars>>

\* generatePlan up to its await
GeneratePlan ==
  /\ caller = PlanReview
  /\ chatPc = "idle"
  /\ isLoading' = TRUE
  /\ invocations' = 1
  /\ chatPc' = "invoking"
  /\ Invoke
  /\ UNCHANGED <<caller, sends, waited, replyData, replyError, messages, toasts,
                 codeUpdates, plan>>
  /\ UNCHANGED <<promptVars, inv, todoVars, devVars, pageVars>>

PlanReceived(r, p) ==
  /\ replyData' = r.data
  /\ replyError' = r.error
  /\ IF Truthy(r.error) \/ p.threw
     THEN /\ plan' = FallbackPlan
          /\ toasts' = Append(toasts, PlanGenerationToast)
     ELSE /\ plan' = p.plan
          /\ toasts' = toasts

\* generatePlan from the return of the invocation on
ReceivePlan ==
  /\ caller = PlanReview
  /\ chatPc = "invoking"
  /\ pc = "done"
  /\ PlanReceived(Invoked(response), PlanOf(DataOf(response)))
  /\ chatPc' = "finished"
  /\ isLoading' = FALSE
  /\ Returned
  /\ UNCHANGED <<caller, sends, invocations, waited, messages, codeUpdates>>
  /\ UNCHANGED <<promptVars, inv, todoVars, devVars, pageVars>>

\* What localStorage may hold: nothing, a key, a blank entry, an entry of a
\* provider the gateway does not know.
CallerKeySets ==
  {[p \in {} |-> ""], [p \in {"openrouter"} |-> "sk-1"],
   [p \in {"openrouter"} |-> " "], [p \in {"gemini"} |-> "sk-1"],
   [p \in {"mistral"} |-> "sk-1"]}

InitCallers ==
  /\ caller \in {Chat, PlanReview}
  /\ handler = (IF caller = Chat THEN CodeAssistant ELSE ProjectGenerator)
  /\ apiKeys \in CallerKeySets
  /\ selectedModels = NoOverrides
  /\ pc = "idle"
  /\ apiUrl = ""
  /\ apiKey = ""
  /\ model = ""
  /\ headers = BaseHeaders
  /\ requestBody = Undefined
  /\ upstream = NoReply
  /\ aiResponse = Undefined
  /\ response = NoResponse
  /\ chatPc = "idle"
  /\ isLoading = FALSE
  /\ invocations = 0
  /\ waited = 0
  /\ replyData = Undefined
  /\ replyError = Undefined
  /\ messages = <<>>
  /\ toasts = <<>>
  /\ codeUpdates = <<>>
  /\ plan = Undefined
  /\ sends = 0
  /\ NoPrompt
  /\ inv = <<>>
  /\ Elsewhere

NextCallers ==
  \/ SendMessage \/ Receive \/ Wait \/ Retry \/ GeneratePlan \/ ReceivePlan
  \/ Route \/ BuildRequestBody \/ Send \/ ExtractText \/ Normalize

SpecCallers == InitCallers /\ [][NextCallers]_vars

(***************************************************************************)
(* Vocabulary of the claims about the callers.                             *)
(***************************************************************************)
Finished == chatPc = "finished"

NoProviderConfigured == \A p \in Providers : ~NonBlank(apiKeys, p)

ToastShown(title) == \E i \in 1..Len(toasts) : toasts[i] = title

\* The user is told to configure an API key.
ToldToConfigure ==
  \/ ToastShown(KeysRequiredToast)
  \/ \E i \in 1..Len(messages) :
       /\ messages[i].type = "ai"
       /\ IsStr(messages[i].content)
       /\ Includes(messages[i].content.s, "configure your API key")

\* The user is shown the outcome every failed request ends with.
ToldGenericFailure ==
  ToastShown(AgentErrorToast) \/ ToastShown(PlanGenerationToast)

\* C14: when no provider is configured, a caller that has finished has told
\* the user to configure an API key and has not shown the generic failure.
C14_NoCredentialsIsActionable ==
  (Finished /\ NoProviderConfigured) => ToldToConfigure /\ ~ToldGenericFailure

InvocationStep ==
  /\ invocations' # invocations =>
       \/ invocations = 0 /\ invocations' = 1
       \/ /\ invocations = 1 /\ invocations' = 2
          /\ Truthy(replyError)
          /\ waited >= BackoffMs
  /\ (pc' = "start" /\ pc # "start") => invocations' = invocations + 1
  /\ Finished => invocations' = invocations /\ pc' = pc

SecondErrorSurfaced ==
  /\ invocations <= 2
  /\ (Finished /\ invocations = 2 /\ Truthy(replyError)) =>
       /\ messages[Len(messages)] = AiMessage(Str(ErrorContent))
       /\ ToastShown(AgentErrorToast)
  /\ (Finished /\ invocations = 1) => ~Truthy(replyError)

ChatOnly == caller = Chat

\* C16: sendMessage invokes the gateway at most twice for a message; the
\* second invocation follows an error of the first and a wait of the
\* backoff delay, never a success; a second error ends the message with the
\* failure shown and no further invocation.
C16_RetryOnceAfterBackoff ==
  [](ChatOnly => SecondErrorSurfaced) /\ [][ChatOnly => InvocationStep]_vars

C16_Witness ==
  /\ caller = Chat
  /\ Finished
  /\ invocations = 2
  /\ waited >= BackoffMs
  /\ Truthy(replyError)
  /\ ToastShown(AgentErrorToast)

(***************************************************************************)
(* Concurrent invocations.  Deno.serve runs the handler once per request;  *)
(* every binding of the handler (apiKey, apiUrl, model, headers,           *)
(* requestBody, response, aiResponse, parsedResponse) is declared inside   *)
(* it, and the only module-level binding is the constant corsHeaders.      *)
(* inv holds the bindings of each invocation under way.                    *)
(***************************************************************************)
Invocations == {"a", "b", "c"}

\* The bindings of an invocation before its first statement.
Binding(h, keys) ==
  [handler |-> h, apiKeys |-> keys, selectedModels |-> NoOverrides,
   pc |-> "start", apiUrl |-> "", apiKey |-> "", model |-> "",
   headers |-> BaseHeaders, requestBody |-> Undefined, upstream |-> NoReply,
   aiResponse |-> Undefined, response |-> NoResponse]

\* Route, on the bindings of one invocation.
AfterRoute(v, r) ==
  [v EXCEPT !.apiUrl = r.apiUrl, !.apiKey = r.apiKey, !.model = r.model,
            !.headers = r.headers,
            !.response = IF r.kind = "throw" THEN ErrorResponse(v.handler, r.error)
                         ELSE IF ~TruthyStr(r.apiKey) THEN NoKeyResponse
                         ELSE v.response,
            !.pc = IF r.kind = "throw" \/ ~TruthyStr(r.apiKey) THEN "done"
                   ELSE "routed"]

\* BuildRequestBody, on the bindings of one invocation.
AfterBuild(v) ==
  [v EXCEPT !.requestBody = BuildBody(v.handler, v.apiUrl, v.model),
            !.pc = "built"]

\* Send, on the bindings of one invocation, with the reply r.
AfterSend(v, r) ==
  [v EXCEPT !.upstream = r,
            !.response = IF ~r.ok
                         THEN ErrorResponse(v.handler,
                                            UpstreamErrorMessage(v.handler, r))
                         ELSE v.response,
            !.pc = IF ~r.ok THEN "done" ELSE "sent"]

\* ExtractText, on the bindings of one invocation.
AfterExtract(v, e) ==
  IF e.threw
  THEN [v EXCEPT !.response = ErrorResponse(v.handler, e.error), !.pc = "done"]
  ELSE [v EXCEPT !.aiResponse = e.v, !.pc = "extracted"]

\* Normalize, on the bindings of one invocation.
AfterNormalize(v, n) ==
  [v EXCEPT !.response = ResponseOf(v.handler, n), !.pc = "done"]

\* Replies the concurrent invocations may get.
PoolReplies ==
  {Reply(200, OpenAIData(Str("{\"files\":{\"a.txt\":\"hello\"}}"))),
   Reply(200, OpenAIData(Str("plain text, no JSON"))),
   Reply(500, EmptyObj)}

PoolHandlers == {CodeAssistant, ProjectGenerator}

PoolKeySets == {[p \in {} |-> ""], [p \in {"openrouter"} |-> "sk-1"]}

Step(i, w) ==
  /\ inv' = [inv EXCEPT ![i] = w]
  /\ UNCHANGED <<gatewayVars, callerVars, promptVars, todoVars, devVars, pageVars>>

RouteIn(i) ==
  /\ inv[i].pc = "start"
  /\ Step(i, AfterRoute(inv[i], RouteOf(inv[i].handler, inv[i].apiKeys,
                                        inv[i].selectedModels)))

BuildIn(i) ==
  /\ inv[i].pc = "routed"
  /\ Step(i, AfterBuild(inv[i]))

SendIn(i) ==
  /\ inv[i].pc = "built"
  /\ \E r \in PoolReplies : Step(i, AfterSend(inv[i], r))

ExtractIn(i) ==
  /\ inv[i].pc = "sent"
  /\ Step(i, AfterExtract(inv[i], ExtractOf(inv[i].handler, inv[i].apiUrl,
                                            inv[i].upstream.data)))

\* Mutant of NormalizeIn: a response kept at module level is handed out
\* when another invocation has already written one.
NormalizeInStale(i) ==
  /\ inv[i].pc = "extracted"
  /\ \E j \in Invocations :
       Step(i, IF j # i /\ inv[j].pc = "done"
               THEN [inv[i] EXCEPT !.response = inv[j].response, !.pc = "done"]
               ELSE AfterNormalize(inv[i], NormalizeOf(inv[i].handler,
                                                       inv[i].aiResponse)))

NormalizeIn(i) ==
  /\ inv[i].pc = "extracted"
  /\ Step(i, AfterNormalize(inv[i], NormalizeOf(inv[i].handler,
                                                inv[i].aiResponse)))

InitPool ==
  /\ inv \in [Invocations -> {Binding(h, k) : h \in PoolHandlers, k \in PoolKeySets}]
  /\ NoInvocation /\ NoCaller /\ NoPrompt /\ Elsewhere

NextPool ==
  \E i \in Invocations :
    \/ RouteIn(i)
    \/ BuildIn(i)
    \/ SendIn(i)
    \/ ExtractIn(i)
    \/ NormalizeIn(i)

SpecPool == InitPool /\ [][NextPool]_vars

(***************************************************************************)
(* Vocabulary of the claim about concurrent invocations.                   *)
(***************************************************************************)
Over(i) == inv[i].pc = "done"

SameRequest(i, j) ==
  /\ inv[i].handler = inv[j].handler
  /\ inv[i].apiKeys = inv[j].apiKeys
  /\ inv[i].selectedModels = inv[j].selectedModels

SameReply(i, j) == inv[i].upstream = inv[j].upstream

\* Both invocations were given the same text by the provider.
SameText(i, j) ==
  /\ inv[i].handler = inv[j].handler
  /\ inv[i].upstream.ok /\ inv[j].upstream.ok
  /\ inv[i].aiResponse = inv[j].aiResponse

SameResult(i, j) == inv[i].response = inv[j].response

\* Finished invocations with the same request and reply, or the same text,
\* have the same result.
Deterministic ==
  \A i, j \in Invocations :
    (Over(i) /\ Over(j) /\ ((SameRequest(i, j) /\ SameReply(i, j)) \/ SameText(i, j)))
      => SameResult(i, j)

\* A step of one invocation leaves the bindings of every other one alone.
Isolated ==
  \A i, j \in Invocations :
    (i # j /\ inv'[i] # inv[i]) => inv'[j] = inv[j]

OpenAIOnly == DOMAIN apiKeys = {"openai"} /\ Trim(apiKeys["openai"]) # ""

\* A JSON object whose files mapping has only non-blank string values.
GoodFiles(v) ==
  /\ Has(v, "files") /\ IsObj(v.f["files"])
  /\ \A k \in DOMAIN v.f["files"].f : NonBlankStr(v.f["files"].f[k])

\* The upstream answered 200 with choices[0].message.content being the text
\* of v.
Answered(v) ==
  /\ upstream.ok /\ upstream.status = 200
  /\ upstream.data = OpenAIData(Str(Stringify(v)))

RoutedToOpenAI ==
  /\ apiUrl = EndpointOf("openai", apiKeys["openai"])
  /\ apiKey = apiKeys["openai"]
  /\ model = DefaultModel(handler, "openai")

CarriesFiles(d, v) == Has(d, "files") /\ d.f["files"] = v.f["files"]

EndToEnd(v) ==
  (pc = "done" /\ OpenAIOnly /\ selectedModels = NoOverrides /\ Answered(v))
    => /\ RoutedToOpenAI
       /\ response.status = 200
       /\ CarriesFiles(DataOf(response), v)

\* C21: with only openai configured and no override, route picks openai with
\* its default model, and a 200 reply whose content is a JSON object with a
\* files mapping M of non-blank strings ends with a result that carries
\* exactly M.
C21_EndToEnd ==
  \A v \in {w \in JsonSamples : GoodFiles(w)} : EndToEnd(v)

C21_Witness ==
  /\ pc = "done" /\ OpenAIOnly /\ RoutedToOpenAI
  /\ handler = CodeAssistant
  /\ Answered(Obj("files" :> Obj(("a.txt" :> Str("hello")) @@ ("b.txt" :> Str("hello")))))
  /\ response.status = 200
  /\ Entries(DataOf(response)) = {"a.txt", "b.txt"}

(***************************************************************************)
(* Vocabulary of the claim about the file edits a chat reply carries.      *)
(***************************************************************************)
\* The gateway answered the chat request with a result.
ChatAnswered == caller = Chat /\ Finished /\ ~Truthy(replyError)

\* onCodeUpdate was called exactly once with this path and content.
UpdatedOnce(path, content) ==
  Cardinality({i \in 1..Len(codeUpdates) :
                 codeUpdates[i] = [file |-> Str(path), content |-> content]}) = 1

\* C22: whenever the gateway answers a chat request with a result whose
\* top-level files mapping is non-empty, sendMessage calls onCodeUpdate once
\* for every (path, content) entry of that mapping.
C22_FileEditsReachProject ==
  (ChatAnswered /\ Entries(replyData) # {}) =>
    \A k \in Entries(replyData) : UpdatedOnce(k, replyData.f["files"].f[k])

(***************************************************************************)
(* Vocabulary of the claim about the chat request in flight.               *)
(***************************************************************************)
\* A call of sendMessage made while isLoading is true.
SentWhileLoading == sends' # sends /\ isLoading

\* The call sends nothing and appends no message.
NothingSent ==
  /\ messages' = messages
  /\ invocations' = invocations
  /\ UNCHANGED gatewayVars
  /\ isLoading' /\ chatPc' = chatPc

\* isLoading is true exactly from the accepted message to its outcome.
LoadingWhileInFlight ==
  /\ isLoading <=> chatPc \in {"invoking", "backoff"}
  /\ Finished => ~isLoading
  /\ Cardinality({i \in 1..Len(messages) : messages[i].type = "user"}) <= 1

\* C28: at most one chat request is in flight: while isLoading is true a
\* call of sendMessage sends nothing and appends no message, and isLoading
\* is false again once the outcome of the accepted message is handled, on
\* success, on the error after the retry and when handling the reply throws.
C28_OneRequestInFlight ==
  [](ChatOnly => LoadingWhileInFlight) /\ [][(ChatOnly /\ SentWhileLoading) => NothingSent]_vars

\* A message was accepted, a further call was made (and refused) while it
\* was loading, and handling the reply threw.
C28_Witness ==
  /\ caller = Chat /\ Finished /\ ~isLoading
  /\ sends >= 2
  /\ ~Truthy(replyError) /\ replyData # Undefined
  /\ ToastShown(AgentErrorToast)
  /\ Cardinality({i \in 1..Len(messages) : messages[i].type = "user"}) = 1

(***************************************************************************)
(* IntelligentToDoSystem: approveTask and executeTask on the active list.  *)
(* A handler works on the activeList of the render that created it: a run  *)
(* of executeTask keeps that list across its await and writes its final    *)
(* status into it.                                                         *)
(***************************************************************************)
Tasks == {"t1", "t2"}

Runs == {"r1", "r2"}

\* Calls of executeTask in one behaviour.
MaxCalls == 3

IdleRun == [pc |-> "idle", task |-> "", list |-> <<>>, reply |-> Undefined]

\* filename && content && typeof content === 'string' && content.trim().length > 0
ValidEntry(en) ==
  /\ Truthy(en.file)
  /\ Truthy(en.content)
  /\ IsStr(en.content)
  /\ Len(Trim(en.content.s)) > 0

\* Mutant of ValidEntries: every entry is applied.
AllEntries(es) == es

\* The entries of response.files that pass the validation.
ValidEntries(es) == SelectSeq(es, ValidEntry)

\* The run ends in the catch block.
TaskFailure == [completed |-> FALSE, updates |-> <<>>]

\* if (response.files && Object.keys(response.files).length > 0) { ... }
FilesOutcome(valid) ==
  [completed |-> valid # <<>>, updates |-> valid]

ResponseOutcome(resp) ==
  IF Nullish(resp) THEN TaskFailure
  ELSE IF Truthy(Prop(resp, "files")) /\ EntriesOf(Prop(resp, "files")) # <<>>
  THEN FilesOutcome(ValidEntries(EntriesOf(Prop(resp, "files"))))
  ELSE TaskFailure

\* typeof rawResponse === 'string' ? JSON.parse(rawResponse) : rawResponse
RawOutcome(raw) ==
  IF IsStr(raw)
  THEN IF JSONParse(raw.s).ok THEN ResponseOutcome(JSONParse(raw.s).v) ELSE TaskFailure
  ELSE ResponseOutcome(raw)

\* executeTask from the return of the invocation up to the status it writes.
TaskOutcomeOf(r) ==
  IF Truthy(r.error) \/ Nullish(r.data) THEN TaskFailure
  ELSE RawOutcome(Or(Or(Prop(r.data, "response"), Prop(r.data, "content")), Str("{}")))

Answer(d) == [data |-> d, error |-> Null]

FilesText(m) == Str(Stringify(Obj("files" :> Obj(m))))

\* The files mappings a reply may hold: none, one entry of each kind of
\* content, a usable entry beside a blank one, two unusable entries.
TaskFileMaps ==
  {m \in FileMaps : Cardinality(DOMAIN m) = 0 \/ DOMAIN m = {"a.txt"}}
    \cup {("a.txt" :> Str("hello")) @@ ("b.txt" :> Str(" ")),
          ("a.txt" :> Str("")) @@ ("b.txt" :> Num(5))}

\* What the invocation may return to executeTask: an error, a response
\* field holding the JSON text of a files mapping, of other values, or no
\* JSON at all, a files mapping beside the response field, an object in
\* place of the text.
TaskReplies ==
  {[data |-> Null, error |-> Str("FunctionsHttpError")]}
    \cup {Answer(Obj("response" :> FilesText(m))) : m \in TaskFileMaps}
    \cup {Answer(Obj("response" :> Str(t))) :
            t \in {"plain text, no JSON", "null", "{\"files\":\"ab\"}",
                   "{\"files\":[\"x\",\"\"]}", "{\"files\":{\"\":\"x\"}}"}}
    \cup {Answer(Obj("files" :> Obj("a.txt" :> Str("hello")))),
          Answer(Obj("content" :> FilesText("b.txt" :> Str("hello")))),
          Answer(Obj("response" :> Obj("files" :> Obj("a.txt" :> Str(" "))))),
          Answer(Obj("response" :> Obj("files" :> Obj("a.txt" :> Str("hello")))))}

\* approveTask, from the Approve button of a pending task
ApproveTask(t) ==
  /\ tasks[t] = "pending"
  /\ tasks' = [tasks EXCEPT ![t] = "approved"]
  /\ UNCHANGED <<processingTask, runs, calls, called, issued, taskUpdates>>
  /\ UNCHANGED <<gatewayVars, callerVars, promptVars, inv, devVars, pageVars>>

\* executeTask up to its await, from the Execute button of an approved task
\* or the Retry button of a failed one; both are disabled only for the task
\* in processingTask.
ExecuteTask(r, t) ==
  /\ tasks[t] \in {"approved", "failed"}
  /\ processingTask # t
  /\ calls < MaxCalls
  /\ runs[r].pc # "awaiting"
  /\ calls' = calls + 1
  /\ called' = t
  /\ IF tasks[t] # "approved"
     THEN UNCHANGED <<tasks, processingTask, runs, issued>>
     ELSE /\ processingTask' = t
          /\ tasks' = [tasks EXCEPT ![t] = "in-progress"]
          /\ runs' = [runs EXCEPT ![r] = [pc |-> "awaiting", task |-> t,
                                          list |-> tasks, reply |-> Undefined]]
          /\ issued' = issued + 1
  /\ taskUpdates' = taskUpdates
  /\ UNCHANGED <<gatewayVars, callerVars, promptVars, inv, devVars, pageVars>>

\* The status the run writes: completed, or failed from the catch block,
\* which also runs when onTaskComplete throws.
FinalStatus(out, thrown) ==
  IF out.completed /\ ~thrown THEN "completed" ELSE "failed"

Finish(r, rep, out, thrown) ==
  /\ tasks' = [runs[r].list EXCEPT ![runs[r].task] = FinalStatus(out, thrown)]
  /\ taskUpdates' = taskUpdates \cup
       {[task |-> runs[r].task, file |-> out.updates[i].file,
         content |-> out.updates[i].content] : i \in 1..Len(out.updates)}
  /\ processingTask' = "null"
  /\ runs' = [runs EXCEPT ![r].pc = "ended", ![r].reply = rep]

\* executeTask from the return of the invocation on.
TaskReply(r) ==
  /\ runs[r].pc = "awaiting"
  /\ \E rep \in TaskReplies, thrown \in BOOLEAN :
       Finish(r, rep, TaskOutcomeOf(rep), thrown)
  /\ UNCHANGED <<calls, called, issued>>
  /\ UNCHANGED <<gatewayVars, callerVars, promptVars, inv, devVars, pageVars>>

InitTodo ==
  /\ tasks \in [Tasks -> {"pending", "approved", "failed"}]
  /\ processingTask = "null"
  /\ runs = [r \in Runs |-> IdleRun]
  /\ calls = 0
  /\ called = ""
  /\ issued = 0
  /\ taskUpdates = {}
  /\ NoInvocation /\ NoCaller /\ NoPrompt /\ inv = <<>> /\ NoDev /\ NoPage

NextTodo ==
  \/ \E t \in Tasks : ApproveTask(t)
  \/ \E r \in Runs, t \in Tasks : ExecuteTask(r, t)
  \/ \E r \in Runs : TaskReply(r)

SpecTodo == InitTodo /\ [][NextTodo]_vars

(***************************************************************************)
(* Vocabulary of the claims about executeTask.                             *)
(***************************************************************************)
Settled(t) == tasks[t] \in {"completed", "failed"}

RunOver(r) == runs[r].pc = "ended"

\* C23: once two runs of executeTask on two distinct approved tasks have both
\* finished, the stored status of each of the two tasks is completed or
\* failed, whatever the interleaving.
C23_RunsDoNotRevert ==
  \A r, q \in Runs :
    (RunOver(r) /\ RunOver(q) /\ runs[r].task # runs[q].task)
      => (Settled(runs[r].task) /\ Settled(runs[q].task))

\* executeTask is called on a failed task.
Retried == calls' # calls /\ tasks[called'] = "failed"

\* C24: a call of executeTask on a failed task moves it to in-progress and
\* issues one gateway call for it.
C24_RetryStartsExecution ==
  [][Retried => (tasks'[called'] = "in-progress" /\ issued' = issued + 1)]_vars

Running(t) == \E r \in Runs : runs[r].pc = "awaiting" /\ runs[r].task = t

\* C25: a task is in-progress only while a run of executeTask on it is under
\* way, and processingTask is null when no run is.
C25_NoTaskLeftInProgress ==
  /\ \A t \in Tasks : tasks[t] = "in-progress" => Running(t)
  /\ (\A t \in Tasks : ~Running(t)) => processingTask = "null"

\* The entries the reply of a run offered that are non-blank strings.
Offered(rep) ==
  IF Truthy(rep.error) \/ Nullish(rep.data) THEN {}
  ELSE LET raw == Or(Or(Prop(rep.data, "response"), Prop(rep.data, "content")), Str("{}"))
           resp == IF IsStr(raw) THEN JSONParse(raw.s).v ELSE raw
           es == EntriesOf(Prop(resp, "files"))
       IN {i \in 1..Len(es) : NonBlankStr(es[i].content)}

\* A run that has just ended wrote completed only for a reply with a usable
\* file.
CompletedByFile ==
  \A r \in Runs :
    (runs[r].pc = "awaiting" /\ runs'[r].pc = "ended"
       /\ tasks'[runs[r].task] = "completed")
      => Offered(runs'[r].reply) # {}

AppliedFor(t) == {u \in taskUpdates : u.task = t}

\* C26: a task is completed only if a file update was applied for it; a
\* reply with no usable file ends with the task failed; onCodeUpdate is
\* never called with blank or non-string content.
C26_CompletedOnlyWithUpdate ==
  /\ [](\A t \in Tasks : tasks[t] = "completed" => AppliedFor(t) # {})
  /\ [](\A u \in taskUpdates : NonBlankStr(u.content))
  /\ [][CompletedByFile]_vars

\* A run got a mapping with one usable and one blank entry: the task is
\* completed with the usable one applied; another run got none and failed.
C26_Witness ==
  \E r, q \in Runs :
    /\ RunOver(r) /\ RunOver(q)
    /\ tasks[runs[r].task] = "completed"
    /\ runs[r].reply = Answer(Obj("response" :>
         FilesText(("a.txt" :> Str("hello")) @@ ("b.txt" :> Str(" ")))))
    /\ AppliedFor(runs[r].task) =
         {[task |-> runs[r].task, file |-> Str("a.txt"), content |-> Str("hello")]}
    /\ runs[q].task # runs[r].task
    /\ runs[q].reply = Answer(Obj("response" :> FilesText("a.txt" :> Str(""))))
    /\ tasks[runs[q].task] = "failed"
    /\ AppliedFor(runs[q].task) = {}

(***************************************************************************)
(* EnhancedLiveDevServer: the log, the start of the server, and the        *)
(* triggers and runs of analyzeAndAutoFix.  A callback sees the state of   *)
(* the render that created it: the interval keeps the analyzeAndAutoFix of *)
(* the render in which its effect last ran, the message listener the one   *)
(* of the first render.                                                    *)
(***************************************************************************)
\* prev.slice(0, 99)
KeptLogs == 99

\* Mutant of AddLogTo: slice(0, 100).
AddLogKeepsOneMore(l, id) == <<id>> \o SubSeq(l, 1, Min(Len(l), KeptLogs + 1))

\* setLogs(prev => [newLog, ...prev.slice(0, 99)])
AddLogTo(l, id) == <<id>> \o SubSeq(l, 1, Min(Len(l), KeptLogs))

\* n calls of addLog in a row, the entries numbered from id on.
RECURSIVE AddLogs(_, _, _)
AddLogs(l, id, n) ==
  IF n = 0 THEN l ELSE AddLogs(AddLogTo(l, id), id + 1, n - 1)

\* addLog calls in one behaviour.
MaxLogged == 104

\* Triggers of the analysis in one behaviour.
MaxTriggers == 3

Log(n) ==
  /\ logged < MaxLogged
  /\ logs' = AddLogs(logs, logged + 1, n)
  /\ logged' = logged + n

\* One call of addLog.
AddLog ==
  /\ Log(1)
  /\ UNCHANGED <<startPc, isRunning, isAnalyzing, intervalSees, timers, analyses,
                 fixing, devCalls, triggers>>
  /\ UNCHANGED <<gatewayVars, callerVars, promptVars, inv, todoVars, pageVars>>

\* startDevServer up to its first await
StartDevServer ==
  /\ ~isRunning /\ startPc = 0
  /\ logged < MaxLogged
  /\ logs' = AddLogs(<<>>, logged + 1, 2)
  /\ logged' = logged + 2
  /\ startPc' = 1
  /\ UNCHANGED <<isRunning, isAnalyzing, intervalSees, timers, analyses, fixing,
                 devCalls, triggers>>
  /\ UNCHANGED <<gatewayVars, callerVars, promptVars, inv, todoVars, pageVars>>

\* startDevServer from one await to the next; the last step sets isRunning,
\* which makes the interval effect run with the callback of that render.
StartupStep ==
  /\ startPc \in 1..3
  /\ IF startPc < 3
     THEN /\ Log(1)
          /\ startPc' = startPc + 1
          /\ UNCHANGED <<isRunning, intervalSees>>
     ELSE /\ Log(3)
          /\ startPc' = 0
          /\ isRunning' = TRUE
          /\ intervalSees' = isAnalyzing
  /\ UNCHANGED <<isAnalyzing, timers, analyses, fixing, devCalls, triggers>>
  /\ UNCHANGED <<gatewayVars, callerVars, promptVars, inv, todoVars, pageVars>>

\* stopServer
StopServer ==
  /\ isRunning
  /\ isRunning' = FALSE
  /\ Log(1)
  /\ UNCHANGED <<startPc, isAnalyzing, intervalSees, timers, analyses, fixing,
                 devCalls, triggers>>
  /\ UNCHANGED <<gatewayVars, callerVars, promptVars, inv, todoVars, pageVars>>

\* projectContent changes while the server runs: the interval effect runs
\* again, with the callback of the current render, and refreshServer logs
\* the hot reload.
ContentChange ==
  /\ isRunning
  /\ triggers < MaxTriggers
  /\ triggers' = triggers + 1
  /\ intervalSees' = isAnalyzing
  /\ Log(1)
  /\ UNCHANGED <<startPc, isRunning, isAnalyzing, timers, analyses, fixing,
                 devCalls>>
  /\ UNCHANGED <<gatewayVars, callerVars, promptVars, inv, todoVars, pageVars>>

\* analyzeAndAutoFix up to its await, as the callback that saw isAnalyzing
\* as sees.
Analyze(sees) ==
  IF sees
  THEN UNCHANGED <<logs, logged, isAnalyzing, analyses, devCalls>>
  ELSE /\ isAnalyzing' = TRUE
       /\ Log(1)
       /\ analyses' = analyses + 1
       /\ devCalls' = devCalls + 1

\* The 5-second interval fires.
IntervalTick ==
  /\ isRunning
  /\ triggers < MaxTriggers
  /\ triggers' = triggers + 1
  /\ Analyze(intervalSees)
  /\ UNCHANGED <<startPc, isRunning, intervalSees, timers, fixing>>
  /\ UNCHANGED <<gatewayVars, callerVars, promptVars, inv, todoVars, pageVars>>

\* A runtime-error or react-error message of the iframe: the listener of the
\* first render, whose autoFixEnabled is true.
ErrorMessage ==
  /\ triggers < MaxTriggers
  /\ triggers' = triggers + 1
  /\ Log(1)
  /\ timers' = timers + 1
  /\ UNCHANGED <<startPc, isRunning, isAnalyzing, intervalSees, analyses, fixing,
                 devCalls>>
  /\ UNCHANGED <<gatewayVars, callerVars, promptVars, inv, todoVars, pageVars>>

\* setTimeout(() => analyzeAndAutoFix(), 1000) fires, with the callback of
\* the first render.
TimerFires ==
  /\ timers > 0
  /\ timers' = timers - 1
  /\ Analyze(FALSE)
  /\ UNCHANGED <<startPc, isRunning, intervalSees, fixing, triggers>>
  /\ UNCHANGED <<gatewayVars, callerVars, promptVars, inv, todoVars, pageVars>>

\* What the reply to the analysis leads to.
AnalysisOutcomes == {"error", "unparsable", "none", "suggestions", "fixable"}

\* analyzeAndAutoFix from the return of the invocation: up to its end, or up
\* to the invocation autoFixIssues makes for the first issue.
AnalysisReply ==
  /\ analyses > 0
  /\ analyses' = analyses - 1
  /\ \E o \in AnalysisOutcomes :
       IF o = "fixable"
       THEN /\ Log(3)
            /\ fixing' = fixing + 1
            /\ devCalls' = devCalls + 1
            /\ isAnalyzing' = isAnalyzing
       ELSE /\ Log(1)
            /\ isAnalyzing' = FALSE
            /\ UNCHANGED <<fixing, devCalls>>
  /\ UNCHANGED <<startPc, isRunning, intervalSees, timers, triggers>>
  /\ UNCHANGED <<gatewayVars, callerVars, promptVars, inv, todoVars, pageVars>>

\* autoFixIssues from the return of its invocation, and the finally block
\* of analyzeAndAutoFix.
FixReply ==
  /\ fixing > 0
  /\ fixing' = fixing - 1
  /\ Log(1)
  /\ isAnalyzing' = FALSE
  /\ UNCHANGED <<startPc, isRunning, intervalSees, timers, analyses, devCalls,
                 triggers>>
  /\ UNCHANGED <<gatewayVars, callerVars, promptVars, inv, todoVars, pageVars>>

InitDev ==
  /\ NoDev
  /\ NoInvocation /\ NoCaller /\ NoPrompt /\ inv = <<>> /\ NoTodo /\ NoPage

\* The server is started once; its content changes, the interval fires and
\* the iframe reports errors.
NextDev ==
  \/ StartDevServer \/ StartupStep \/ ContentChange
  \/ IntervalTick \/ ErrorMessage \/ TimerFires \/ AnalysisReply \/ FixReply

SpecDev == InitDev /\ [][NextDev]_vars

\* The log alone: addLog is called, the server is started and stopped.
NextLog == AddLog \/ StartDevServer \/ StartupStep \/ StopServer

SpecLog == InitDev /\ [][NextLog]_vars

(***************************************************************************)
(* Vocabulary of the claims about the dev server.                          *)
(***************************************************************************)
InProgress == analyses + fixing

\* C27: at most one run of analyzeAndAutoFix is in progress at any time: a
\* trigger that fires while a run awaits the gateway starts no second run
\* and issues no second gateway call, and isAnalyzing is false when no run
\* is in progress.
C27_SingleAnalysis ==
  /\ InProgress <= 1
  /\ InProgress = 0 => ~isAnalyzing

\* Keep last 100 logs
LogLimit == 100

\* The list holds the most recent entries, newest first.
NewestFirst == \A i \in 1..Len(logs) : logs[i] = logged - i + 1

\* startDevServer has just reset the list.
Reset == startPc = 0 /\ startPc' = 1

\* addLog calls grow the list by one entry each up to the limit; after the
\* reset it holds only the entries logged since.
GrowsToLimit ==
  logged' # logged =>
    Len(logs') = IF Reset THEN logged' - logged
                 ELSE Min(Len(logs) + (logged' - logged), LogLimit)

\* C30: the log never holds more than 100 entries: after any sequence of
\* addLog calls it is the most recent min(n, 100) entries, newest first, and
\* startDevServer resets it to empty before logging.
C30_LogBounded ==
  [](Len(logs) <= LogLimit /\ NewestFirst) /\ [][GrowsToLimit]_vars

\* The list is full and older entries logged since the last start have been
\* dropped.
C30_Witness ==
  /\ Len(logs) = LogLimit
  /\ isRunning
  /\ logs[LogLimit] > 3
  /\ logged > LogLimit + 2

(***************************************************************************)
(* The CreateProject page: handleCreateProject, and the plan review that   *)
(* follows it in the variant of the page that has one.                     *)
(***************************************************************************)
\* The page with the plan review, and the one that navigates at once.
WithReview == "review"

Direct == "direct"

\* What supabase.auth.getUser() may give: a user, no user, an error, a
\* rejection.
AuthOutcomes == {"user", "none", "error", "rejected"}

\* What localStorage may hold under webcrafter_api_keys.
StoredKeys ==
  {Null, Str(""), Str("not json"), Str("null"), Str("{}"),
   Str("{\"openai\":\"sk-1\"}"), Str("{\"openai\":\"\"}"), Str("{\"openai\":\" \"}"),
   Str("{\"openai\":5}"), Str("{\"mistral\":\"sk-1\"}"),
   Str("{\"anthropic\":\"\",\"openai\":\"sk-1\"}")}

\* What the insert may give: the row, an error, neither, a rejection.
InsertOutcomes == {"row", "error", "empty", "rejected"}

\* Calls of handleCreateProject that reach the insert, in one behaviour.
MaxInserts == 2

KeysThrew == [threw |-> TRUE, valid |-> FALSE]

KeysChecked(v) == [threw |-> FALSE, valid |-> v]

\* Mutant of SomeValid: a blank entry counts as a key.
RECURSIVE SomePresent(_, _)
SomePresent(es, i) ==
  IF i > Len(es) THEN KeysChecked(FALSE)
  ELSE IF ~Truthy(es[i].content) THEN SomePresent(es, i + 1)
  ELSE IF ~IsStr(es[i].content) THEN KeysThrew
  ELSE KeysChecked(TRUE)

\* Object.values(apiKeys).some((key) => key && key.trim() !== "")
RECURSIVE SomeValid(_, _)
SomeValid(es, i) ==
  IF i > Len(es) THEN KeysChecked(FALSE)
  ELSE IF ~Truthy(es[i].content) THEN SomeValid(es, i + 1)
  ELSE IF ~IsStr(es[i].content) THEN KeysThrew
  ELSE IF Trim(es[i].content.s) # "" THEN KeysChecked(TRUE)
  ELSE SomeValid(es, i + 1)

\* JSON.parse(savedKeys) and the check of its values.
ParsedKeys(p) ==
  IF ~p.ok \/ Nullish(p.v) THEN KeysThrew ELSE SomeValid(EntriesOf(p.v), 1)

\* The page leaves handleCreateProject through its finally block.
CallEnds ==
  /\ isCreating' = FALSE
  /\ createPc' = "ended"

Fails(title) == pageToasts' = pageToasts \cup {title}

\* handleCreateProject up to the await of getUser
HandleCreateProject ==
  /\ page \in {WithReview, Direct}
  /\ createPc = "idle"
  /\ ~isCreating
  /\ inserted < MaxInserts
  /\ isCreating' = TRUE
  /\ createPc' = "authing"
  /\ pageToasts' = {}
  /\ UNCHANGED <<page, user, savedKeys, inserted, showPlanReview, location>>
  /\ UNCHANGED <<gatewayVars, callerVars, promptVars, inv, todoVars, devVars>>

\* The checks that follow the user, once the stored keys are read.
AfterKeys(k) ==
  IF k.threw
  THEN /\ Fails("Error") /\ CallEnds
       /\ UNCHANGED <<inserted, location>>
  ELSE IF ~k.valid
  THEN /\ Fails("API Keys Required") /\ CallEnds
       /\ location' = "/settings"
       /\ inserted' = inserted
  ELSE /\ inserted' = inserted + 1
       /\ createPc' = "inserting"
       /\ UNCHANGED <<isCreating, pageToasts, location>>

\* handleCreateProject from the return of getUser up to the insert.
UserReturns ==
  /\ createPc = "authing"
  /\ IF user = "rejected"
     THEN /\ Fails("Error") /\ CallEnds
          /\ UNCHANGED <<inserted, location>>
     ELSE IF user # "user"
     THEN /\ Fails("Authentication Required") /\ CallEnds
          /\ location' = "/auth"
          /\ inserted' = inserted
     ELSE IF ~Truthy(savedKeys)
     THEN /\ Fails("API Keys Required") /\ CallEnds
          /\ location' = "/settings"
          /\ inserted' = inserted
     ELSE AfterKeys(ParsedKeys(JSONParse(savedKeys.s)))
  /\ UNCHANGED <<page, user, savedKeys, showPlanReview>>
  /\ UNCHANGED <<gatewayVars, callerVars, promptVars, inv, todoVars, devVars>>

\* handleCreateProject from the return of the insert on.
InsertReturns ==
  /\ createPc = "inserting"
  /\ \E o \in InsertOutcomes :
       IF o # "row"
       THEN /\ Fails("Error")
            /\ UNCHANGED <<showPlanReview, location>>
       ELSE /\ pageToasts' = pageToasts
            /\ showPlanReview' = (page = WithReview)
            /\ location' = IF page = Direct THEN "/builder" ELSE location
  /\ CallEnds
  /\ UNCHANGED <<page, user, savedKeys, inserted>>
  /\ UNCHANGED <<gatewayVars, callerVars, promptVars, inv, todoVars, devVars>>

\* handleProceedToBuild
ProceedToBuild ==
  /\ showPlanReview
  /\ location = "/create"
  /\ location' = "/builder"
  /\ UNCHANGED <<page, createPc, isCreating, user, savedKeys, inserted,
                 showPlanReview, pageToasts>>
  /\ UNCHANGED <<gatewayVars, callerVars, promptVars, inv, todoVars, devVars>>

\* handleBackToConfig: the wizard is shown again.
BackToConfig ==
  /\ showPlanReview
  /\ location = "/create"
  /\ showPlanReview' = FALSE
  /\ createPc' = "idle"
  /\ UNCHANGED <<page, isCreating, user, savedKeys, inserted, location, pageToasts>>
  /\ UNCHANGED <<gatewayVars, callerVars, promptVars, inv, todoVars, devVars>>

InitPage ==
  /\ page \in {WithReview, Direct}
  /\ createPc = "idle"
  /\ isCreating = FALSE
  /\ user \in AuthOutcomes
  /\ savedKeys \in StoredKeys
  /\ inserted = 0
  /\ showPlanReview = FALSE
  /\ location = "/create"
  /\ pageToasts = {}
  /\ NoInvocation /\ NoCaller /\ NoPrompt /\ inv = <<>> /\ NoTodo /\ NoDev

NextPage ==
  \/ HandleCreateProject \/ UserReturns \/ InsertReturns
  \/ ProceedToBuild \/ BackToConfig

SpecPage == InitPage /\ [][NextPage]_vars

(***************************************************************************)
(* Vocabulary of the claim about handleCreateProject.                      *)
(***************************************************************************)
\* The stored credentials hold at least one non-blank API key.
HoldsKey(v) ==
  /\ IsStr(v) /\ JSONParse(v.s).ok /\ IsObj(JSONParse(v.s).v)
  /\ \E k \in DOMAIN JSONParse(v.s).v.f : NonBlankStr(JSONParse(v.s).v.f[k])

InsertGuarded == inserted > 0 => (user = "user" /\ HoldsKey(savedKeys))

\* The call ended without a project: an early exit or a failed insert.
EndedWithout == createPc = "ended" /\ pageToasts # {}

NoWayForward == ~showPlanReview /\ location # "/builder"

\* C29: handleCreateProject inserts a project row only after the user is
\* authenticated and the stored credentials hold a non-blank key; on every
\* early exit and every insert error no plan review is shown and the builder
\* is not navigated to; isCreating is false again when the call ends.
C29_CreateGuarded ==
  /\ InsertGuarded
  /\ EndedWithout => NoWayForward
  /\ createPc \in {"idle", "ended"} => ~isCreating

\* An insert was made for an authenticated user with a key and failed.
C29_Witness ==
  /\ createPc = "ended"
  /\ inserted = 1
  /\ "Error" \in pageToasts
  /\ user = "user"
  /\ savedKeys = Str("{\"anthropic\":\"\",\"openai\":\"sk-1\"}")
  /\ ~isCreating /\ NoWayForward

====
